---- MODULE Spec2Model ----
(***************************************************************************)
(* A model of the synthesis pass of the YAML-driven CDK stacks of app-cdk  *)
(* (src/stacks/...), of the SSM helpers they share (src/utils/ssm.py) and  *)
(* of the app entry point (src/app.py).                                    *)
(*                                                                         *)
(* One behaviour is one pass of one deployment unit: Init picks the unit   *)
(* and its configuration document, the actions are the handlers the        *)
(* unit's constructor calls, in the order it calls them.  Python strings   *)
(* are sequences of one-character strings, so that f-strings, replace()    *)
(* and capitalize() are computed rather than assumed.                      *)
(***************************************************************************)
EXTENDS Integers, Sequences, FiniteSets, TLC

VARIABLES
    unit,      \* which deployment unit this pass synthesizes
    config,    \* the configuration document returned by load_yaml
    registry,  \* keys present in the external parameter registry (SSM)
    self,      \* the stack object: prj_name, env_name, its caches, its child construct ids
    out,       \* what the pass has emitted so far: declarations, registry reads, prints
    pc,        \* position of the constructor's walk
    status,    \* "running", "done" (constructor returned), "failed" (it raised)
    error,     \* the exception that ended the pass
    assembly   \* what app.synth() has written for the engine to apply

vars == <<unit, config, registry, self, out, pc, status, error, assembly>>

-----------------------------------------------------------------------------
(* Bounds of the model.                                                    *)

\* longest list of resource specs in one configuration document
MaxSpecs == 2

-----------------------------------------------------------------------------
(* Python strings.                                                         *)

LowerLetters == <<"a","b","c","d","e","f","g","h","i","j","k","l","m",
                  "n","o","p","q","r","s","t","u","v","w","x","y","z">>
UpperLetters == <<"A","B","C","D","E","F","G","H","I","J","K","L","M",
                  "N","O","P","Q","R","S","T","U","V","W","X","Y","Z">>

LetterIndex(c, letters) ==
    IF \E i \in 1..Len(letters) : letters[i] = c
    THEN CHOOSE i \in 1..Len(letters) : letters[i] = c
    ELSE 0

\* str.upper() and str.lower() on one character
UpperChar(c) ==
    IF LetterIndex(c, LowerLetters) > 0 THEN UpperLetters[LetterIndex(c, LowerLetters)] ELSE c
LowerChar(c) ==
    IF LetterIndex(c, UpperLetters) > 0 THEN LowerLetters[LetterIndex(c, UpperLetters)] ELSE c

\* str.upper(), str.lower()
Upper(s) == [i \in 1..Len(s) |-> UpperChar(s[i])]
Lower(s) == [i \in 1..Len(s) |-> LowerChar(s[i])]

\* str.capitalize(): first character upper-cased, the rest lower-cased
Capitalize(s) == [i \in 1..Len(s) |-> IF i = 1 THEN UpperChar(s[i]) ELSE LowerChar(s[i])]

\* str.replace(old, new) for a one-character old and a new of any length
RECURSIVE Replace(_, _, _)
Replace(s, old, new) ==
    IF s = <<>> THEN <<>>
    ELSE (IF Head(s) = old THEN new ELSE <<Head(s)>>) \o Replace(Tail(s), old, new)

\* "/" + "/".join(segs): the shape of every f"/{a}/{b}/..." in the stacks
RECURSIVE Path(_)
Path(segs) ==
    IF segs = <<>> THEN <<>> ELSE <<"/">> \o Head(segs) \o Path(Tail(segs))

\* str(i) for the small indexes the stacks format
Digits == <<"0","1","2","3","4","5","6","7","8","9">>
RECURSIVE Str(_)
Str(i) == IF i < 10 THEN <<Digits[i + 1]>> ELSE Str(i \div 10) \o <<Digits[(i % 10) + 1]>>

\* string literals of the source
L_vpc == <<"v","p","c">>
L_sg == <<"s","g">>
L_subnet == <<"s","u","b","n","e","t">>
L_public == <<"p","u","b","l","i","c">>
L_param == <<"_","p","a","r","a","m">>
L_VpcImport == <<"V","p","c","I","m","p","o","r","t">>
L_ImportedSg == <<"I","m","p","o","r","t","e","d","S","g","-">>
L_dash == <<"-">>
L_tcp == <<"t","c","p">>
L_udp == <<"u","d","p">>
L_icmp == <<"i","c","m","p">>
L_all == <<"a","l","l">>
L_all_traffic == <<"a","l","l","_","t","r","a","f","f","i","c">>

-----------------------------------------------------------------------------
(* Exceptions, and the state a handler threads through its statements:     *)
(* M = [self, out, err].  A statement is skipped once M.err is set.        *)

\* a local name for a value: x = e in the statements that follow
Let(e, rest(_)) == rest(e)

\* an exception: its class, where it was raised, why, and what its message
\* carries of the offending configuration (value, field name, allowed set)
NoError == [type |-> "none", site |-> "", cause |-> "", value |-> <<>>, field |-> "", allowed |-> {}]
Raise(type, site, cause) == [NoError EXCEPT !.type = type, !.site = site, !.cause = cause]

Failed(M) == M.err # NoError
Return(M, v) == [M EXCEPT !.ret = v]
None == [tok |-> "none", of |-> <<>>, attr |-> ""]

\* dict.get(key, default), and `key in dict`
Get(d, key, default) == IF key \in DOMAIN d THEN d[key] ELSE default
Has(d, key) == key \in DOMAIN d

\* cache[name] = handle
Store(cache, name, h) == (name :> h) @@ cache
Throw(M, type, site, cause) == [M EXCEPT !.err = Raise(type, site, cause)]
Emit(M, e) == [M EXCEPT !.out = Append(@, e)]

\* `raise ValueError(f"...: {e}")` in an except clause: the new exception's
\* message embeds the caught one's
Reraise(M, type, site) == [M EXCEPT !.err.type = type, !.err.site = site]

\* what config_path names: a document (the tree yaml.safe_load returns for
\* it), nothing, text that is not YAML, or bytes that are not text
NoFile == [file |-> "absent"]
BadYaml == [file |-> "not_yaml"]
BadBytes == [file |-> "not_text"]
FaultyFiles == {NoFile, BadYaml, BadBytes}

\* a loader that looks the document up in the registry when the file fails
load_yaml_with_fallback(M, file) ==
    IF Failed(M) THEN M
    ELSE IF file \in FaultyFiles
    THEN Throw(Emit(M, [ev |-> "get", key |-> <<"/", "c", "o", "n", "f", "i", "g">>]),
               "FileNotFoundError", "load_yaml", "NotFound")
    ELSE Return(M, file)

\* load_yaml(file_path): FileNotFoundError unless the path exists; a
\* yaml.YAMLError becomes a ValueError that embeds it; what reading the file
\* raises otherwise (UnicodeDecodeError) is not caught
load_yaml(M, file) ==
    IF Failed(M) THEN M
    ELSE IF file = NoFile THEN Throw(M, "FileNotFoundError", "load_yaml", "NotFound")
    ELSE IF file = BadYaml
    THEN Reraise(Throw(M, "YAMLError", "safe_load", "NotWellFormed"), "ValueError", "load_yaml")
    ELSE IF file = BadBytes THEN Throw(M, "UnicodeDecodeError", "load_yaml", "InvalidByte")
    ELSE Return(M, file)

\* getattr(EnumClass, s.upper()): the member, or AttributeError("type object
\* 'EnumClass' has no attribute 'S'")
GetattrEnum(M, enum_class, members, s) ==
    IF Failed(M) THEN M
    ELSE IF Upper(s) \in members THEN Return(M, Upper(s))
    ELSE [M EXCEPT !.err = [Raise("AttributeError", enum_class, "NoSuchMember")
                            EXCEPT !.value = Upper(s)]]

\* print(...)
PrintLine(M, level, site, about) ==
    Emit(M, [ev |-> "print", level |-> level, site |-> site, about |-> about])

\* values: a literal of the configuration, an attribute of a declared
\* construct (known at apply time), or a deferred registry read
Lit(s) == [tok |-> "lit", of |-> s, attr |-> ""]
Attr(id, attr) == [tok |-> "attr", of |-> id, attr |-> attr]
\* a registry read answered at once when the key is already stored
SsmToken_resolved(key) ==
    [tok |-> IF key \in registry THEN "lit" ELSE "ssm", of |-> key, attr |-> ""]

\* ssm.StringParameter.value_for_string_parameter: a token resolved at apply time
SsmToken(key) ==
    [tok |-> "ssm", of |-> key, attr |-> ""]

\* a built or imported resource held in a cache
Handle(origin, type, id) == [origin |-> origin, type |-> type, id |-> id]
NoHandle == Handle("none", "", <<>>)

\* self.<cache>[name] = h
Remember(M, cache, name, h) ==
    Emit([M EXCEPT !.self[cache] = Store(@, name, h)],
         [ev |-> "cache", cache |-> cache, name |-> name, handle |-> h])

\* a reference to `name` was resolved to h: from the stack's cache ("cache"),
\* through a registry read ("registry") or by a direct import ("import")
Resolved(M, cache, name, how, h) ==
    Emit(M, [ev |-> "resolve", cache |-> cache, name |-> name, how |-> how, handle |-> h])

-----------------------------------------------------------------------------
(* The infrastructure engine's construct tree (aws-cdk / constructs).      *)

\* SomeConstruct(scope, id, **props): a scope holds one child per id, a second
\* child under the same id raises
NewConstruct(M, type, id, props) ==
    IF Failed(M) THEN M
    ELSE IF id \in M.self.children
    THEN Throw(M, "RuntimeError", type, "DuplicateConstructId")
    ELSE Emit([M EXCEPT !.self.children = @ \cup {id}],
              [ev |-> "declare", type |-> type, id |-> id, props |-> props])

-----------------------------------------------------------------------------
(* src/utils/ssm.py                                                        *)

\* get_ssm_parameter looking the key up while the stack is built
get_ssm_parameter_eager(M, name) ==
    IF Failed(M) THEN M
    ELSE IF name \notin registry
    THEN Throw(M, "ParameterNotFound", "get_ssm_parameter", "ParameterNotFound")
    ELSE Emit(M, [ev |-> "get", key |-> name])


\* get_ssm_parameter(scope, name): declares a deferred read of `name`; the
\* registry is not consulted, the value is a token resolved at apply time
get_ssm_parameter(M, name) ==
    IF Failed(M) THEN M ELSE Emit(M, [ev |-> "get", key |-> name])

\* the construct id put_ssm_parameter gives the StringParameter
ParamId(name) == Replace(name, "/", <<"_">>) \o L_param

\* put_ssm_parameter giving every parameter construct a running number, so
\* that no two ids collide
put_ssm_parameter_numbered(M, name, value) ==
    NewConstruct(M, "StringParameter", ParamId(name) \o Str(Len(M.out)),
                 [parameter_name |-> name, string_value |-> value])

\* put_ssm_parameter replacing an earlier declaration of the same parameter
put_ssm_parameter_overwriting(M, name, value) ==
    IF Failed(M) \/ ParamId(name) \notin M.self.children
    THEN NewConstruct(M, "StringParameter", ParamId(name),
                      [parameter_name |-> name, string_value |-> value])
    ELSE [M EXCEPT !.out = [i \in 1..Len(M.out) |->
                               IF M.out[i].ev = "declare" /\ M.out[i].id = ParamId(name)
                               THEN [M.out[i] EXCEPT !.props.string_value = value]
                               ELSE M.out[i]]]


\* put_ssm_parameter(scope, name, value)
put_ssm_parameter(M, name, value) ==
    NewConstruct(M, "StringParameter", ParamId(name),
                 [parameter_name |-> name, string_value |-> value])

\* get_ssm_subnet_ids(scope, base_path, count): one read per index 0..count-1
RECURSIVE GetSubnetIdsFrom(_, _, _, _)
GetSubnetIdsFrom(M, base_path, i, count) ==
    IF i >= count THEN M
    ELSE GetSubnetIdsFrom(get_ssm_parameter(M, base_path \o <<"/">> \o Str(i)),
                          base_path, i + 1, count)

\* indexed reads numbered from 1: base_path/1 ... base_path/count
get_ssm_subnet_ids_from_one(M, base_path, count) ==
    GetSubnetIdsFrom(M, base_path, 1, count + 1)

get_ssm_subnet_ids(M, base_path, count) ==
    GetSubnetIdsFrom(M, base_path, 0, count)

\* the list get_ssm_subnet_ids returns
SubnetIdTokens(base_path, count) ==
    [i \in 1..count |-> SsmToken(base_path \o <<"/">> \o Str(i - 1))]

-----------------------------------------------------------------------------
(* src/stacks/network/security_group.py                                    *)

\* Stack.__init__ of a YAML-driven stack: prj_name, env_name, empty caches
NewStack(conf) ==
    [config |-> conf, prj_name |-> conf.project_name, env_name |-> conf.env, children |-> {},
     vpcs |-> <<>>, security_groups |-> <<>>, target_groups |-> <<>>,
     hosted_zones |-> <<>>, certificates |-> <<>>, buckets |-> <<>>,
     db_secrets |-> <<>>, repositories |-> <<>>, ecs_clusters |-> <<>>,
     task_execution_roles |-> <<>>, task_roles |-> <<>>]

\* the head of every stack's __init__: self.config = load_yaml(config_path),
\* then the project and environment names and the empty caches
Stack_init(M, file) ==
    LET L == load_yaml(M, file)
    IN  IF Failed(L) THEN L
        ELSE [L EXCEPT !.self = NewStack(L.ret), !.ret = None]

\* f"/{prj}/{env}/vpc/{vpc_key}" and f"/{prj}/{env}/sg/{name}"
Sg_vpc_id_param_name(S, vpc_key) == Path(<<S.prj_name, S.env_name, L_vpc, vpc_key>>)
\* the key with project and environment exchanged
Sg_sg_param_name_swapped(S, sg_name) == Path(<<S.env_name, S.prj_name, L_sg, sg_name>>)

Sg_sg_param_name(S, sg_name) == Path(<<S.prj_name, S.env_name, L_sg, sg_name>>)

\* the try block of _create_base_security_group: read the id, import the VPC
Sg_import_vpc(M, sg_conf) ==
    LET vpc_key == sg_conf.vpc
        name == Sg_vpc_id_param_name(M.self, vpc_key)
        id == Capitalize(vpc_key) \o L_VpcImport
        M1 == get_ssm_parameter(M, name)
        M2 == NewConstruct(M1, "VpcImport", id,
                  [vpc_id |-> SsmToken(name),
                   availability_zones |-> Get(sg_conf, "availability_zones", <<>>)])
    IN  IF Failed(M2)
        THEN Reraise(M2, "ValueError", "import_vpc")
        ELSE Resolved(Remember(M2, "vpcs", vpc_key, Handle("imported", "Vpc", id)),
                      "vpcs", vpc_key, "registry", Handle("imported", "Vpc", id))

\* sg_conf.get("allow_all_outbound", ...) with False for an absent field
Sg_allow_all_outbound_closed(sg_conf) == Get(sg_conf, "allow_all_outbound", FALSE)

\* allow_all_outbound = sg_conf.get("allow_all_outbound", True)
Sg_allow_all_outbound(sg_conf) == Get(sg_conf, "allow_all_outbound", TRUE)

Sg_create_base_security_group(M, sg_conf) ==
    LET sg_name_in_config == sg_conf.name
        vpc_key == sg_conf.vpc
        allow_all_outbound == Sg_allow_all_outbound(sg_conf)
     IN Let(  IF vpc_key \notin DOMAIN M.self.vpcs THEN Sg_import_vpc(M, sg_conf)
              ELSE Resolved(M, "vpcs", vpc_key, "cache", M.self.vpcs[vpc_key]), LAMBDA M1 :
    LET sg_logical_id == M.self.prj_name \o L_dash \o M.self.env_name \o L_dash \o sg_name_in_config
        cdk_resource_name == sg_logical_id \o L_dash \o L_sg
     IN Let(  IF Failed(M1) THEN M1
              ELSE NewConstruct(M1, "SecurityGroup", sg_logical_id,
                      [security_group_name |-> cdk_resource_name,
                       vpc |-> M1.self.vpcs[vpc_key],
                       description_given |-> Has(sg_conf, "description"),
                       allow_all_outbound |-> allow_all_outbound]), LAMBDA M2 :
    LET M3 == IF Failed(M2) THEN M2
              ELSE Remember(M2, "security_groups", sg_name_in_config,
                            Handle("built", "SecurityGroup", sg_logical_id))
    IN  put_ssm_parameter(M3, Sg_sg_param_name(M.self, sg_name_in_config),
                          Attr(sg_logical_id, "security_group_id"))))

\* peers and ports handed to add_ingress_rule / add_egress_rule
Peer(kind, of) == [kind |-> kind, of |-> of]

\* the try block of the source_sg branch: read the id, import the group, cache it
Sg_import_peer(M, source_sg_name) ==
    LET param == Sg_sg_param_name(M.self, source_sg_name)
        id == L_ImportedSg \o source_sg_name
        h == Handle("imported", "SecurityGroup", id)
        M1 == get_ssm_parameter(M, param)
        M2 == NewConstruct(M1, "SecurityGroupImport", id, [security_group_id |-> SsmToken(param)])
    IN  IF Failed(M2)
        THEN Reraise(M2, "ValueError", "import_sg")
        ELSE Return(Resolved(Remember(M2, "security_groups", source_sg_name, h),
                             "security_groups", source_sg_name, "registry", h),
                    Peer("sg", h))

Sg_resolve_peer(M, rule) ==
    IF Has(rule, "cidr") THEN Return(M, Peer("ipv4", rule.cidr))
    ELSE IF Has(rule, "source_sg")
    THEN IF rule.source_sg \notin DOMAIN M.self.security_groups
         THEN Sg_import_peer(M, rule.source_sg)
         ELSE Return(Resolved(M, "security_groups", rule.source_sg, "cache",
                              M.self.security_groups[rule.source_sg]),
                     Peer("sg", M.self.security_groups[rule.source_sg]))
    ELSE IF Has(rule, "prefix_list_id") THEN Return(M, Peer("prefix_list", rule.prefix_list_id))
    ELSE IF Has(rule, "connection_peer_id") THEN Return(M, Peer("vpc_peer", rule.connection_peer_id))
    ELSE IF Has(rule, "all_ipv4") /\ rule.all_ipv4 THEN Return(M, Peer("any_ipv4", <<>>))
    ELSE IF Has(rule, "all_ipv6") /\ rule.all_ipv6 THEN Return(M, Peer("any_ipv6", <<>>))
    ELSE Throw(M, "ValueError", "resolve_peer", "NoPeerAlternative")

\* a YAML port is a scalar [int |-> n] or, for icmp, a mapping [type, code]
Port(kind, from, to) == [kind |-> kind, from |-> from, to |-> to]
AnyPort == [int |-> -1]

Sg_resolve_port_range(M, rule) ==
    LET protocol == Lower(Get(rule, "protocol", L_tcp))
    IN  IF Has(rule, "port")
        THEN LET port == rule.port
             IN  IF (Has(port, "int") /\ port.int = -1) \/ protocol = L_all
                 THEN Return(M, Port("all_traffic", AnyPort, AnyPort))
                 ELSE IF protocol = L_tcp THEN Return(M, Port("tcp", port, port))
                 ELSE IF protocol = L_udp THEN Return(M, Port("udp", port, port))
                 ELSE IF protocol = L_icmp
                 THEN IF Has(port, "int")
                      THEN Throw(M, "AttributeError", "resolve_port_range", "IntHasNoGet")
                      ELSE Return(M, Port("icmp", Get(port, "type", AnyPort), Get(port, "code", AnyPort)))
                 ELSE Throw(M, "ValueError", "resolve_port_range", "UnsupportedProtocol")
        ELSE IF Has(rule, "from_port") /\ Has(rule, "to_port")
        THEN IF protocol = L_tcp THEN Return(M, Port("tcp", rule.from_port, rule.to_port))
             ELSE IF protocol = L_udp THEN Return(M, Port("udp", rule.from_port, rule.to_port))
             ELSE Throw(M, "ValueError", "resolve_port_range", "UnsupportedProtocol")
        ELSE IF protocol = L_all_traffic THEN Return(M, Port("all_traffic", AnyPort, AnyPort))
        ELSE Throw(M, "ValueError", "resolve_port_range", "NoPort")

\* one iteration of a rule loop: the try block, then its two except clauses,
\* which print and continue with the next rule
Sg_add_rule(M, sg, dir, rule) ==
    LET M1 == Sg_resolve_peer(M, rule)
     IN Let(  IF Failed(M1) THEN M1 ELSE Sg_resolve_port_range(M1, rule), LAMBDA M2 :
        Let(  IF Failed(M2) THEN M2
              ELSE Emit(M2, [ev |-> "rule", dir |-> dir, sg |-> sg.id, peer |-> M1.ret,
                             port |-> M2.ret, rule |-> rule]), LAMBDA M3 :
        IF Failed(M3)
        THEN [PrintLine(M3, IF M3.err.type = "ValueError" THEN "ERROR" ELSE "UNEXPECTED ERROR",
                        M3.err.site, M3.err.cause)
              EXCEPT !.err = NoError]
        ELSE M3))

RECURSIVE Sg_add_rules(_, _, _, _)
Sg_add_rules(M, sg, dir, rules) ==
    IF rules = <<>> THEN M
    ELSE Sg_add_rules(Sg_add_rule(M, sg, dir, Head(rules)), sg, dir, Tail(rules))

Sg_add_rules_to_security_group(M, sg_conf) ==
    LET sg == M.self.security_groups[sg_conf.name]
     IN Let(  Sg_add_rules(M, sg, "ingress", Get(sg_conf, "ingress", <<>>)), LAMBDA M1 :
        IF ~Get(sg_conf, "allow_all_outbound", TRUE)
        THEN Sg_add_rules(M1, sg, "egress", Get(sg_conf, "egress", <<>>))
        ELSE M1)

-----------------------------------------------------------------------------
(* src/stacks/network/alb.py                                               *)

L_loadbalancer == <<"l","o","a","d","b","a","l","a","n","c","e","r">>
L_targetgroup == <<"t","a","r","g","e","t","g","r","o","u","p">>
L_SGImport == <<"S","G","I","m","p","o","r","t">>
L_ImportedTG == <<"I","m","p","o","r","t","e","d","T","G","-">>
L_TG == <<"T","G">>
L_Rule == <<"R","u","l","e">>
L_HZ == <<"-","H","Z">>
L_HZRule == <<"-","H","Z","-","R","u","l","e">>
L_Cert == <<"C","e","r","t">>
L_CertImport == <<"C","e","r","t","I","m","p","o","r","t">>
L_HTTPListener == <<"H","T","T","P","L","i","s","t","e","n","e","r">>
L_HTTPSListener == <<"H","T","T","P","S","L","i","s","t","e","n","e","r">>
L_HTTPRedirect == <<"-","H","T","T","P","R","e","d","i","r","e","c","t">>
L_AliasRecord == <<"A","l","i","a","s","R","e","c","o","r","d">>
L_HTTP == <<"H","T","T","P">>
L_INSTANCE == <<"I","N","S","T","A","N","C","E">>
L_dot == <<".">>

\* elb.ApplicationProtocol and elb.TargetType
ApplicationProtocol == {<<"H","T","T","P">>, <<"H","T","T","P","S">>}
TargetType == {<<"I","N","S","T","A","N","C","E">>, <<"I","P">>, <<"L","A","M","B","D","A">>, <<"A","L","B">>}

\* a child construct of another construct: parent.add_listener(id, ...)
ChildId(parent, id) == parent \o <<"/">> \o id

Alb_vpc_id_param_name(S, vpc_key) == Path(<<S.prj_name, S.env_name, L_vpc, vpc_key>>)
Alb_public_subnet_path_prefix(S, vpc_key) ==
    Path(<<S.prj_name, S.env_name, vpc_key, L_subnet, L_public>>)
Alb_sg_id_param_name(S, sg_name) == Path(<<S.prj_name, S.env_name, L_sg, sg_name>>)
Alb_loadbalancer_param_name(S, alb_name) == Path(<<S.prj_name, S.env_name, L_loadbalancer, alb_name>>)
\* the key a target group is published under, and the key a forward action reads
Alb_targetgroup_param_name(S, alb_name, tg_name) ==
    Path(<<S.prj_name, S.env_name, L_targetgroup, alb_name \o L_dash \o tg_name>>)
Alb_tg_arn_param(S, tg_name_ref) == Path(<<S.prj_name, S.env_name, L_targetgroup, tg_name_ref>>)

Alb_get_vpc(M, vpc_key, azs) ==
    IF Failed(M) THEN M
    ELSE IF vpc_key \notin DOMAIN M.self.vpcs
    THEN LET name == Alb_vpc_id_param_name(M.self, vpc_key)
             prefix == Alb_public_subnet_path_prefix(M.self, vpc_key)
             id == vpc_key \o L_VpcImport
             h == Handle("imported", "Vpc", id)
             M1 == get_ssm_parameter(M, name)
             M2 == get_ssm_subnet_ids(M1, prefix, Len(azs))
             M3 == NewConstruct(M2, "VpcImport", id,
                       [vpc_id |-> SsmToken(name), availability_zones |-> azs,
                        public_subnet_ids |-> SubnetIdTokens(prefix, Len(azs))])
         IN  IF Failed(M3) THEN Reraise(M3, "ValueError", "import_vpc")
             ELSE Return(Resolved(Remember(M3, "vpcs", vpc_key, h), "vpcs", vpc_key, "registry", h), h)
    ELSE Return(Resolved(M, "vpcs", vpc_key, "cache", M.self.vpcs[vpc_key]), M.self.vpcs[vpc_key])

Alb_get_security_group(M, sg_name) ==
    IF Failed(M) THEN M
    ELSE IF sg_name \notin DOMAIN M.self.security_groups
    THEN LET name == Alb_sg_id_param_name(M.self, sg_name)
             id == sg_name \o L_SGImport
             h == Handle("imported", "SecurityGroup", id)
             M1 == get_ssm_parameter(M, name)
             M2 == NewConstruct(M1, "SecurityGroupImport", id, [security_group_id |-> SsmToken(name)])
         IN  IF Failed(M2) THEN Reraise(M2, "ValueError", "import_sg")
             ELSE Return(Resolved(Remember(M2, "security_groups", sg_name, h),
                                  "security_groups", sg_name, "registry", h), h)
    ELSE Return(Resolved(M, "security_groups", sg_name, "cache", M.self.security_groups[sg_name]),
                M.self.security_groups[sg_name])

\* route53.HostedZone.from_lookup(self, id, domain_name=...), cached by zone name
Alb_lookup_hosted_zone(M, hosted_zone_name, id) ==
    IF Failed(M) \/ hosted_zone_name \in DOMAIN M.self.hosted_zones THEN M
    ELSE LET M1 == NewConstruct(M, "HostedZoneLookup", id, [domain_name |-> hosted_zone_name])
         IN  IF Failed(M1) THEN M1
             ELSE Remember(M1, "hosted_zones", hosted_zone_name, Handle("imported", "HostedZone", id))

Alb_get_or_create_certificate(M, cert_conf, base_domain_name) ==
    IF Failed(M) THEN M
    ELSE LET cert_id == cert_conf.id
             cert_type == Get(cert_conf, "type", "create")
         IN  IF cert_id \in DOMAIN M.self.certificates THEN Return(M, M.self.certificates[cert_id])
             ELSE IF cert_type = "create"
             THEN LET hosted_zone_name == Get(cert_conf, "hosted_zone_name", base_domain_name)
                      M1 == Alb_lookup_hosted_zone(M, hosted_zone_name,
                                Replace(hosted_zone_name, ".", L_dash) \o L_HZ)
                      M2 == IF Failed(M1) THEN Reraise(M1, "ValueError", "lookup_hosted_zone")
                            ELSE NewConstruct(M1, "Certificate", cert_id \o L_Cert,
                                     [domain_name |-> cert_conf.main_subdomain \o L_dot \o base_domain_name,
                                      validation |-> M1.self.hosted_zones[hosted_zone_name]])
                      h == Handle("built", "Certificate", cert_id \o L_Cert)
                  IN  IF Failed(M2) THEN M2
                      ELSE Return(Remember(M2, "certificates", cert_id, h), h)
             ELSE IF cert_type = "import"
             THEN IF Get(cert_conf, "arn", <<>>) = <<>>
                  THEN Throw(M, "ValueError", "get_or_create_certificate", "ImportWithoutArn")
                  ELSE LET h == Handle("imported", "Certificate", cert_id \o L_CertImport)
                           M1 == NewConstruct(M, "CertificateImport", cert_id \o L_CertImport,
                                     [arn |-> cert_conf.arn])
                       IN  IF Failed(M1) THEN M1
                           ELSE Return(Remember(M1, "certificates", cert_id, h), h)
             ELSE Throw(M, "ValueError", "get_or_create_certificate", "UnsupportedCertificateType")

ListenerAction(type, target) == [type |-> type, target |-> target]

Alb_resolve_listener_action(M, action_conf) ==
    IF Failed(M) THEN M
    ELSE LET action_type == action_conf.type
         IN  IF action_type = "fixed_response" THEN Return(M, ListenerAction("fixed_response", NoHandle))
             ELSE IF action_type = "forward"
             THEN LET tg_name_ref == Get(action_conf, "target_group_name_ref", <<>>)
                  IN  IF tg_name_ref = <<>>
                      THEN Throw(M, "ValueError", "resolve_listener_action", "ForwardWithoutRef")
                      ELSE IF tg_name_ref \in DOMAIN M.self.target_groups
                      THEN Return(Resolved(M, "target_groups", tg_name_ref, "cache",
                                           M.self.target_groups[tg_name_ref]),
                                  ListenerAction("forward", M.self.target_groups[tg_name_ref]))
                      ELSE LET tg_arn_param == Alb_tg_arn_param(M.self, tg_name_ref)
                               id == L_ImportedTG \o tg_name_ref
                               h == Handle("imported", "TargetGroup", id)
                               M1 == PrintLine(M, "WARNING", "resolve_listener_action", "TargetGroupNotCached")
                               M2 == get_ssm_parameter(M1, tg_arn_param)
                               M3 == NewConstruct(M2, "TargetGroupImport", id,
                                         [target_group_arn |-> SsmToken(tg_arn_param)])
                           IN  IF Failed(M3) THEN Reraise(M3, "ValueError", "import_tg")
                               ELSE Return(Resolved(M3, "target_groups", tg_name_ref, "registry", h),
                                           ListenerAction("forward", h))
             ELSE IF action_type = "redirect" THEN Return(M, ListenerAction("redirect", NoHandle))
             ELSE Throw(M, "ValueError", "resolve_listener_action", "UnsupportedActionType")

\* the listener conditions a target-group entry configures, in the order built
Alb_conditions(tg_rule_conf) ==
    (IF Has(tg_rule_conf, "host_headers") THEN <<"host_headers">> ELSE <<>>)
    \o (IF Has(tg_rule_conf, "path_patterns") THEN <<"path_patterns">> ELSE <<>>)
    \o [k \in 1..Len(Get(tg_rule_conf, "http_header_conditions", <<>>)) |-> "http_header"]
    \o [k \in 1..Len(Get(tg_rule_conf, "query_string_conditions", <<>>)) |-> "query_strings"]
    \o (IF Has(tg_rule_conf, "source_ips") THEN <<"source_ips">> ELSE <<>>)

\* the ARecord loop of one entry: one record per host header
RECURSIVE Alb_alias_records(_, _, _, _)
Alb_alias_records(M, alb_conf, alb_id, host_headers) ==
    IF host_headers = <<>> THEN M
    ELSE LET fqdn == Head(host_headers) \o L_dot \o alb_conf.domain_name
         IN  Alb_alias_records(
                 NewConstruct(M, "ARecord", Replace(fqdn, ".", <<>>) \o L_AliasRecord,
                              [record_name |-> fqdn, target |-> alb_id]),
                 alb_conf, alb_id, Tail(host_headers))

\* one iteration of the loop of _create_target_groups_and_rules, for entry i
\* (0-based) with the priority counter at `priority`; returns the counter
Alb_target_group_and_rule(M, alb_conf, alb_id, listener_id, i, priority) ==
    LET tg_rule_conf == alb_conf.target_groups[i + 1]
        tg_name_in_config == tg_rule_conf.name
        M1 == GetattrEnum(M, "ApplicationProtocol", ApplicationProtocol,
                          Get(tg_rule_conf, "protocol", L_HTTP))
        M2 == GetattrEnum(M1, "TargetType", TargetType, Get(tg_rule_conf, "target_type", L_INSTANCE))
        tg_logical_id == alb_conf.name \o tg_name_in_config \o L_TG
        tg == Handle("built", "TargetGroup", tg_logical_id)
     IN Let(  NewConstruct(M2, "TargetGroup", tg_logical_id,
                  [target_group_name |-> alb_conf.name \o L_dash \o tg_name_in_config,
                   vpc |-> M.self.vpcs[alb_conf.vpc], port |-> tg_rule_conf.port,
                   protocol |-> M1.ret, target_type |-> M2.ret]), LAMBDA M3 :
    LET M4 == IF Failed(M3) THEN M3
              ELSE Remember(M3, "target_groups", tg_name_in_config, tg)
     IN Let(  put_ssm_parameter(M4, Alb_targetgroup_param_name(M.self, alb_conf.name, tg_name_in_config),
                                Attr(tg_logical_id, "target_group_arn")), LAMBDA M5 :
    LET conditions == Alb_conditions(tg_rule_conf)
        rule_action == Get(tg_rule_conf, "action",
                           [type |-> "forward", target_group_name_ref |-> tg_name_in_config])
    IN  IF Failed(M5) THEN M5
        ELSE IF conditions = <<>> /\ rule_action.type # "fixed_response" /\ rule_action.type # "redirect"
        THEN Return(PrintLine(M5, "WARNING", "create_target_groups_and_rules", "RuleWithoutConditions"),
                    priority)
        ELSE
            Let(  Alb_resolve_listener_action(M5, rule_action), LAMBDA M6 :
            Let(  NewConstruct(M6, "ListenerRule", alb_conf.name \o L_Rule \o Str(i),
                      [listener |-> listener_id, priority |-> priority,
                       conditions |-> conditions, action |-> M6.ret]), LAMBDA M7 :
            IF Failed(M7) THEN M7
            ELSE IF Get(tg_rule_conf, "host_headers", <<>>) # <<>>
            THEN LET hosted_zone_name == Get(alb_conf, "hosted_zone_name", alb_conf.domain_name)
                  IN Let(  Alb_lookup_hosted_zone(M7, hosted_zone_name,
                               Replace(hosted_zone_name, ".", L_dash) \o L_HZRule \o Str(i)), LAMBDA M8 :
                     IF Failed(M8)
                     THEN Return([PrintLine(M8, "ERROR", "lookup_hosted_zone", M8.err.cause)
                                  EXCEPT !.err = NoError], priority + 10)
                     ELSE Return(Alb_alias_records(M8, alb_conf, alb_id, tg_rule_conf.host_headers),
                                 priority + 10))
            ELSE Return(M7, priority + 10)))))

\* the counter advanced by every entry, whether or not it declared a rule
RECURSIVE Alb_target_group_loop_by_position(_, _, _, _, _, _)
Alb_target_group_loop_by_position(M, alb_conf, alb_id, listener_id, i, priority) ==
    IF Failed(M) \/ i >= Len(alb_conf.target_groups) THEN M
    ELSE     Let(  Alb_target_group_and_rule(M, alb_conf, alb_id, listener_id, i, priority), LAMBDA M1 :
             Alb_target_group_loop_by_position(M1, alb_conf, alb_id, listener_id, i + 1,
                                               priority + 10))

RECURSIVE Alb_target_group_loop(_, _, _, _, _, _)
Alb_target_group_loop(M, alb_conf, alb_id, listener_id, i, priority) ==
    IF Failed(M) \/ i >= Len(alb_conf.target_groups) THEN M
    ELSE     Let(  Alb_target_group_and_rule(M, alb_conf, alb_id, listener_id, i, priority), LAMBDA M1 :
             Alb_target_group_loop(M1, alb_conf, alb_id, listener_id, i + 1,
                                   IF Failed(M1) THEN priority ELSE M1.ret))

FirstPriority == 10

Alb_create_target_groups_and_rules(M, alb_id, listener_id, alb_conf) ==
    IF Failed(M) THEN M
    ELSE IF Get(alb_conf, "target_groups", <<>>) = <<>>
    THEN PrintLine(M, "WARNING", "create_target_groups_and_rules", "NoTargetGroups")
    ELSE Alb_target_group_loop(M, alb_conf, alb_id, listener_id, 0, FirstPriority)

DefaultHttpsAction == [type |-> "fixed_response", status_code |-> 404]

Alb_create_single_alb(M, alb_conf) ==
    LET alb_name_in_config == alb_conf.name
        azs == Get(alb_conf, "availability_zones", <<>>)
        M1 == Alb_get_vpc(M, alb_conf.vpc, azs)
     IN Let(  Alb_get_security_group(M1, alb_conf.sg), LAMBDA M2 :
    LET alb_logical_id == M.self.prj_name \o L_dash \o M.self.env_name \o L_dash \o alb_name_in_config
        M3 == NewConstruct(M2, "LoadBalancer", alb_logical_id,
                  [load_balancer_name |-> alb_logical_id, vpc |-> M1.ret,
                   internet_facing |-> Get(alb_conf, "internet_facing", TRUE),
                   security_group |-> M2.ret])
        M4 == put_ssm_parameter(M3, Alb_loadbalancer_param_name(M.self, alb_name_in_config),
                                Attr(alb_logical_id, "load_balancer_arn"))
     IN Let(  Alb_get_or_create_certificate(M4, alb_conf.certificate, alb_conf.domain_name), LAMBDA M5 :
    LET http_redirect_conf == Get(alb_conf, "http_redirect_to_https", [enabled |-> FALSE])
        http_listener_id == ChildId(alb_logical_id, alb_name_in_config \o L_HTTPListener)
        M6 == IF Failed(M5) THEN M5
              ELSE IF Get(http_redirect_conf, "enabled", FALSE)
              THEN NewConstruct(
                       NewConstruct(M5, "Listener", http_listener_id, [port |-> 80]),
                       "ListenerAction", ChildId(http_listener_id, alb_name_in_config \o L_HTTPRedirect),
                       [permanent |-> Get(http_redirect_conf, "permanent", TRUE)])
              ELSE PrintLine(M5, "INFO", "create_single_alb", "NoHttpRedirect")
     IN Let(  Alb_resolve_listener_action(M6, Get(alb_conf, "default_https_action", DefaultHttpsAction)), LAMBDA M7 :
    LET https_listener_id == ChildId(alb_logical_id, alb_name_in_config \o L_HTTPSListener)
        M8 == NewConstruct(M7, "Listener", https_listener_id,
                  [port |-> 443, certificate |-> M5.ret, default_action |-> M7.ret])
    IN  Alb_create_target_groups_and_rules(M8, alb_logical_id, https_listener_id, alb_conf))))

-----------------------------------------------------------------------------
(* src/stacks/network/vpc.py                                               *)

L_vpc_infix == <<"-","v","p","c","-">>
L_vpc_suffix == <<"-","v","p","c">>
L_PUBLIC == <<"P","U","B","L","I","C">>
L_PRIVATE_WITH_EGRESS == <<"P","R","I","V","A","T","E","_","W","I","T","H","_","E","G","R","E","S","S">>
L_PRIVATE_ISOLATED == <<"P","R","I","V","A","T","E","_","I","S","O","L","A","T","E","D">>

\* ec2.SubnetType, in the order subnet_group_map lists it
SubnetTypes == <<L_PUBLIC, L_PRIVATE_WITH_EGRESS, L_PRIVATE_ISOLATED>>
SubnetType == {SubnetTypes[i] : i \in 1..Len(SubnetTypes)}

\* self.node.add_warning / add_error: an annotation on the stack
Annotate(M, level, site, about) ==
    Emit(M, [ev |-> "annotation", level |-> level, site |-> site, about |-> about])

\* the loop building subnet_configurations: an entry whose type is no member of
\* SubnetType is reported with add_error and left out
RECURSIVE Vpc_subnet_configurations(_, _)
Vpc_subnet_configurations(M, subnets) ==
    IF subnets = <<>> THEN Return(M, <<>>)
    ELSE LET M1 == GetattrEnum(M, "SubnetType", SubnetType, Head(subnets).type)
             rest == Vpc_subnet_configurations(
                         IF Failed(M1)
                         THEN [Annotate(M1, "error", "create_single_vpc", "InvalidSubnetType")
                               EXCEPT !.err = NoError]
                         ELSE M1,
                         Tail(subnets))
         IN  IF Failed(M1) THEN rest
             ELSE Return(rest, <<[name |-> Head(subnets).name, subnet_type |-> M1.ret]>> \o rest.ret)

\* the availability zones the engine spreads the VPC over
Vpc_az_count(vpc_cfg, available) ==
    IF Has(vpc_cfg, "max_azs") /\ vpc_cfg.max_azs < available THEN vpc_cfg.max_azs ELSE available

\* vpc.public_subnets / private_subnets / isolated_subnets: the engine makes one
\* subnet per configured group and zone, group by group
RECURSIVE Vpc_subnets_of_type(_, _, _, _)
Vpc_subnets_of_type(vpc_id, cfgs, type, azs) ==
    IF cfgs = <<>> THEN <<>>
    ELSE (IF Head(cfgs).subnet_type = type
          THEN [k \in 1..azs |-> Attr(ChildId(vpc_id, Head(cfgs).name \o <<"S","u","b","n","e","t">> \o Str(k)), "subnet_id")]
          ELSE <<>>)
         \o Vpc_subnets_of_type(vpc_id, Tail(cfgs), type, azs)

\* {cfg.subnet_type: cfg.name for cfg in subnet_configurations}.get(type, type.name):
\* the name of the last group configured with this type
RECURSIVE Vpc_subnet_group_name(_, _)
Vpc_subnet_group_name(cfgs, type) ==
    IF cfgs = <<>> THEN type
    ELSE IF cfgs[Len(cfgs)].subnet_type = type THEN cfgs[Len(cfgs)].name
    ELSE Vpc_subnet_group_name(SubSeq(cfgs, 1, Len(cfgs) - 1), type)

Vpc_vpc_param_name(S, vpc_name) == Path(<<S.prj_name, S.env_name, L_vpc, vpc_name>>)
Vpc_subnet_ssm_path(S, vpc_name, subnet_group_name, i) ==
    Path(<<S.prj_name, S.env_name, vpc_name, L_subnet, Lower(subnet_group_name), Str(i)>>)

\* for i, subnet in enumerate(subnets): put_ssm_parameter(...)
RECURSIVE Vpc_put_subnets(_, _, _, _, _)
Vpc_put_subnets(M, vpc_name, group, subnets, i) ==
    IF i >= Len(subnets) THEN M
    ELSE Vpc_put_subnets(
             put_ssm_parameter(M, Vpc_subnet_ssm_path(M.self, vpc_name, group, i), subnets[i + 1]),
             vpc_name, group, subnets, i + 1)

\* for subnet_type, subnets in subnet_group_map.items()
RECURSIVE Vpc_put_subnet_groups(_, _, _, _, _, _)
Vpc_put_subnet_groups(M, vpc_name, vpc_id, cfgs, azs, t) ==
    IF t > Len(SubnetTypes) THEN M
    ELSE LET subnets == Vpc_subnets_of_type(vpc_id, cfgs, SubnetTypes[t], azs)
             M1 == IF subnets # <<>>
                   THEN Vpc_put_subnets(M, vpc_name, Vpc_subnet_group_name(cfgs, SubnetTypes[t]),
                                        subnets, 0)
                   ELSE M
         IN  Vpc_put_subnet_groups(M1, vpc_name, vpc_id, cfgs, azs, t + 1)

Vpc_create_single_vpc(M, vpc_cfg, available_azs) ==
    LET vpc_name_in_config == vpc_cfg.name
        vpc_logical_id == M.self.prj_name \o L_dash \o M.self.env_name \o L_vpc_infix \o vpc_name_in_config
        cdk_resource_name == M.self.prj_name \o L_dash \o M.self.env_name \o L_dash
                             \o vpc_name_in_config \o L_vpc_suffix
     IN Let(  Vpc_subnet_configurations(M, Get(vpc_cfg, "subnets", <<>>)), LAMBDA M1 :
    LET azs == Vpc_az_count(vpc_cfg, available_azs)
     IN Let(  NewConstruct(M1, "Vpc", vpc_logical_id,
                  [vpc_name |-> cdk_resource_name, cidr |-> vpc_cfg.cidr,
                   subnet_configuration |-> M1.ret, azs |-> azs,
                   nat_gateways |-> Get(vpc_cfg, "nat_gateways", 0),
                   enable_dns_hostnames |-> Get(vpc_cfg, "enable_dns_hostnames", TRUE),
                   enable_dns_support |-> Get(vpc_cfg, "enable_dns_support", TRUE)]), LAMBDA M2 :
    LET M3 == IF Failed(M2) THEN M2
              ELSE Remember(M2, "vpcs", vpc_name_in_config, Handle("built", "Vpc", vpc_logical_id))
     IN Let(  put_ssm_parameter(M3, Vpc_vpc_param_name(M.self, vpc_name_in_config),
                                Attr(vpc_logical_id, "vpc_id")), LAMBDA M4 :
        IF Failed(M4) THEN M4
        ELSE Vpc_put_subnet_groups(M4, vpc_name_in_config, vpc_logical_id, M1.ret, azs, 1))))

-----------------------------------------------------------------------------
(* src/stacks/storage/rds.py                                               *)

L_rds == <<"r","d","s">>
L_arn == <<"a","r","n">>
L_endpoint == <<"e","n","d","p","o","i","n","t">>
L_port == <<"p","o","r","t">>
L_secret == <<"s","e","c","r","e","t">>
L_secret_suffix == <<"-","s","e","c","r","e","t">>
L_params_suffix == <<"-","p","a","r","a","m","s">>
L_rds_suffix == <<"-","r","d","s">>
L_postgres == <<"p","o","s","t","g","r","e","s">>
L_mysql == <<"m","y","s","q","l">>

\* the members of the engine's enumerations the configurations draw on
InstanceClass == {<<"T","3">>, <<"M","5">>}
InstanceSize == {<<"M","I","C","R","O">>, <<"L","A","R","G","E">>}
PostgresEngineVersion == {<<"V","E","R","_","1","5">>, <<"V","E","R","_","1","6">>}
MysqlEngineVersion == {<<"V","E","R","_","8","_","0">>}

\* required_subnet_count when no availability zones are given
DefaultSubnetCount == 2

Rds_vpc_id_param_name(S, vpc_key) == Path(<<S.prj_name, S.env_name, L_vpc, vpc_key>>)
Rds_ssm_subnet_base_path(S, vpc_key, subnet_type) ==
    Path(<<S.prj_name, S.env_name, vpc_key, L_subnet, Lower(subnet_type)>>)
Rds_sg_id_param_name(S, sg_name) == Path(<<S.prj_name, S.env_name, L_sg, sg_name>>)
Rds_param_name(S, name, what) == Path(<<S.prj_name, S.env_name, L_rds, name>> \o what)

Rds_get_vpc(M, vpc_key, azs, subnet_type) ==
    IF Failed(M) THEN M
    ELSE IF vpc_key \notin DOMAIN M.self.vpcs
    THEN LET name == Rds_vpc_id_param_name(M.self, vpc_key)
             base == Rds_ssm_subnet_base_path(M.self, vpc_key, subnet_type)
             count == IF azs # <<>> THEN Len(azs) ELSE DefaultSubnetCount
             id == vpc_key \o L_VpcImport
             h == Handle("imported", "Vpc", id)
             M1 == get_ssm_parameter(M, name)
             M2 == get_ssm_subnet_ids(M1, base, count)
             M3 == IF Upper(subnet_type) \in SubnetType THEN M2
                   ELSE [M2 EXCEPT !.err = [Raise("ValueError", "get_vpc", "UnsupportedSubnetType")
                                            EXCEPT !.value = subnet_type]]
             M4 == NewConstruct(M3, "VpcImport", id,
                       [vpc_id |-> SsmToken(name), availability_zones |-> azs,
                        subnet_type |-> Upper(subnet_type),
                        subnet_ids |-> SubnetIdTokens(base, count)])
         IN  IF Failed(M4) THEN Reraise(M4, "ValueError", "import_vpc")
             ELSE Return(Resolved(Remember(M4, "vpcs", vpc_key, h), "vpcs", vpc_key, "registry", h), h)
    ELSE Return(Resolved(M, "vpcs", vpc_key, "cache", M.self.vpcs[vpc_key]), M.self.vpcs[vpc_key])

Rds_get_security_group(M, sg_name) ==
    IF Failed(M) THEN M
    ELSE IF sg_name \notin DOMAIN M.self.security_groups
    THEN LET name == Rds_sg_id_param_name(M.self, sg_name)
             id == sg_name \o L_SGImport
             h == Handle("imported", "SecurityGroup", id)
             M1 == get_ssm_parameter(M, name)
             M2 == NewConstruct(M1, "SecurityGroupImport", id, [security_group_id |-> SsmToken(name)])
         IN  IF Failed(M2) THEN Reraise(M2, "ValueError", "import_sg")
             ELSE Return(Resolved(Remember(M2, "security_groups", sg_name, h),
                                  "security_groups", sg_name, "registry", h), h)
    ELSE Return(Resolved(M, "security_groups", sg_name, "cache", M.self.security_groups[sg_name]),
                M.self.security_groups[sg_name])

Rds_get_db_engine_version(M, engine_conf) ==
    IF Failed(M) THEN M
    ELSE LET engine_type == Lower(engine_conf.type)
             engine_version_str == Upper(engine_conf.version)
             unsupported == [Raise("ValueError", "get_db_engine_version", "UnsupportedEngineVersion")
                             EXCEPT !.value = engine_version_str]
         IN  IF engine_type = L_postgres
             THEN IF engine_version_str \in PostgresEngineVersion
                  THEN Return(M, [engine |-> L_postgres, version |-> engine_version_str])
                  ELSE [M EXCEPT !.err = unsupported]
             ELSE IF engine_type = L_mysql
             THEN IF engine_version_str \in MysqlEngineVersion
                  THEN Return(M, [engine |-> L_mysql, version |-> engine_version_str])
                  ELSE [M EXCEPT !.err = unsupported]
             ELSE [M EXCEPT !.err = [Raise("ValueError", "get_db_engine_version", "UnsupportedEngineType")
                                     EXCEPT !.value = engine_type]]

\* the read-replica branch: the primary must have been created earlier in this
\* pass; its ARN is then read from the registry
Rds_read_replica(M, name, read_replica_of, common) ==
    IF Failed(M) THEN M
    ELSE IF read_replica_of \notin DOMAIN M.self.db_secrets
    THEN [M EXCEPT !.err = [Raise("ValueError", "create_single_db_instance", "PrimaryNotFound")
                            EXCEPT !.value = read_replica_of]]
    ELSE LET key == Rds_param_name(M.self, read_replica_of, <<L_arn>>)
             M1 == get_ssm_parameter(M, key)
             M2 == Resolved(M1, "db_secrets", read_replica_of, "registry",
                            Handle("imported", "DatabaseInstance", key))
         IN  NewConstruct(M2, "DatabaseInstanceReadReplica", name \o L_rds_suffix,
                          common @@ [source_database_instance_arn |-> SsmToken(key)])

Rds_create_single_db_instance(M, db_conf) ==
    LET name == db_conf.name
        M1 == GetattrEnum(M, "InstanceClass", InstanceClass, db_conf.instance_class)
        M2 == GetattrEnum(M1, "InstanceSize", InstanceSize, db_conf.instance_size)
        multi_az == Get(db_conf, "multi_az", FALSE)
        subnet_type == Upper(Get(db_conf, "subnet_type", L_PRIVATE_WITH_EGRESS))
        given_azs == Get(db_conf, "availability_zones", <<>>)
        M3 == IF ~Failed(M2) /\ given_azs = <<>> /\ multi_az
              THEN PrintLine(M2, "INFO", "create_single_db_instance", "DefaultingAzs") ELSE M2
        azs == IF given_azs = <<>> /\ multi_az THEN <<<<"_">>, <<"_">>>> ELSE given_azs
     IN Let(  Rds_get_vpc(M3, db_conf.vpc, azs, subnet_type), LAMBDA M4 :
        Let(  Rds_get_security_group(M4, db_conf.security_group_name), LAMBDA M5 :
        Let(  GetattrEnum(M5, "SubnetType", SubnetType, subnet_type), LAMBDA M6 :
        Let(  NewConstruct(M6, "Secret", name \o L_secret_suffix,
                  [secret_name |-> M.self.prj_name \o <<"/">> \o M.self.env_name \o <<"/">> \o L_rds
                                   \o <<"/">> \o name \o <<"/","c","r","e","d","e","n","t","i","a","l","s">>,
                   username |-> db_conf.username,
                   password_length |-> Get(db_conf, "password_length", 16)]), LAMBDA M7 :
    LET M8 == IF Failed(M7) THEN M7
              ELSE Remember(M7, "db_secrets", name, Handle("built", "Secret", name \o L_secret_suffix))
     IN Let(  Rds_get_db_engine_version(M8, db_conf.engine), LAMBDA M9 :
        Let(   NewConstruct(M9, "ParameterGroup", name \o L_params_suffix,
                   [engine |-> M9.ret, parameters |-> Get(db_conf, "parameter_group_params", <<>>)]), LAMBDA M10 :
        Let(      [instance_identifier |-> name,
                   instance_type |-> <<M1.ret, M2.ret>>,
                   vpc |-> M4.ret, vpc_subnets |-> M6.ret, security_groups |-> <<M5.ret>>,
                   publicly_accessible |-> Get(db_conf, "publicly_accessible", FALSE)], LAMBDA common :
    LET M11 == IF Has(db_conf, "read_replica_of")
               THEN Rds_read_replica(M10, name, db_conf.read_replica_of, common)
               ELSE NewConstruct(Rds_get_db_engine_version(M10, db_conf.engine),
                        "DatabaseInstance", name \o L_rds_suffix,
                        common @@
                        [engine |-> M9.ret, credentials |-> name \o L_secret_suffix,
                         multi_az |-> multi_az,
                         storage_encrypted |-> Get(db_conf, "storage_encrypted", TRUE),
                         deletion_protection |-> Get(db_conf, "deletion_protection", TRUE),
                         parameter_group |-> name \o L_params_suffix,
                         database_name |-> db_conf.db_name,
                         port |-> Get(db_conf, "port", 5432),
                         allocated_storage |-> Get(db_conf, "allocated_storage_gb", 100),
                         backup_retention |-> Get(db_conf, "backup_retention_days", 7)])
        id == name \o L_rds_suffix
        M12 == put_ssm_parameter(M11, Rds_param_name(M.self, name, <<L_arn>>), Attr(id, "instance_arn"))
        M13 == put_ssm_parameter(M12, Rds_param_name(M.self, name, <<L_endpoint>>),
                                 Attr(id, "db_instance_endpoint_address"))
        M14 == put_ssm_parameter(M13, Rds_param_name(M.self, name, <<L_endpoint, L_port>>),
                                 Attr(id, "db_instance_endpoint_port"))
    IN  put_ssm_parameter(M14, Rds_param_name(M.self, name, <<L_secret>>),
                          Attr(name \o L_secret_suffix, "secret_name")))))))))

-----------------------------------------------------------------------------
(* src/utils/s3_public.py, src/stacks/storage/s3.py                        *)

L_s3 == <<"s","3">>
L_name == <<"n","a","m","e">>
L_Bucket == <<"B","u","c","k","e","t">>
L_LoggingBucketImport == <<"L","o","g","g","i","n","g","B","u","c","k","e","t","I","m","p","o","r","t">>
L_PRIVATE == <<"P","R","I","V","A","T","E">>
L_S3_MANAGED == <<"S","3","_","M","A","N","A","G","E","D">>
L_RETAIN == <<"R","E","T","A","I","N">>

BucketAccessControl == {<<"P","R","I","V","A","T","E">>, <<"P","U","B","L","I","C","_","R","E","A","D">>, <<"L","O","G","_","D","E","L","I","V","E","R","Y","_","W","R","I","T","E">>}
BucketEncryption == {<<"S","3","_","M","A","N","A","G","E","D">>, <<"K","M","S">>, <<"K","M","S","_","M","A","N","A","G","E","D">>, <<"U","N","E","N","C","R","Y","P","T","E","D">>}
RemovalPolicy == {<<"D","E","S","T","R","O","Y">>, <<"R","E","T","A","I","N">>, <<"S","N","A","P","S","H","O","T">>}
StorageClass == {<<"G","L","A","C","I","E","R">>, <<"I","N","F","R","E","Q","U","E","N","T","_","A","C","C","E","S","S">>}

\* bool(x) of a YAML value: a boolean scalar [bool |-> b] is b, a mapping or
\* list is true unless empty
Truthy(x) == IF "bool" \in DOMAIN x THEN x.bool ELSE DOMAIN x # {}

\* each block taken from its own key of the mapping, on when the key is absent
get_block_public_access_per_key(enabled) ==
    IF Truthy(enabled)
    THEN [block_public_acls |-> Get(enabled, "block_public_acls", TRUE),
          block_public_policy |-> Get(enabled, "block_public_policy", TRUE),
          ignore_public_acls |-> Get(enabled, "ignore_public_acls", TRUE),
          restrict_public_buckets |-> Get(enabled, "restrict_public_buckets", TRUE)]
    ELSE [block_public_acls |-> FALSE, block_public_policy |-> FALSE,
          ignore_public_acls |-> FALSE, restrict_public_buckets |-> FALSE]

\* get_block_public_access(enabled)
get_block_public_access(enabled) ==
    IF Truthy(enabled)
    THEN [block_public_acls |-> TRUE, block_public_policy |-> TRUE,
          ignore_public_acls |-> TRUE, restrict_public_buckets |-> TRUE]
    ELSE [block_public_acls |-> FALSE, block_public_policy |-> FALSE,
          ignore_public_acls |-> FALSE, restrict_public_buckets |-> FALSE]

S3_param_name(S, bucket_name_in_config) ==
    Path(<<S.prj_name, S.env_name, L_s3, bucket_name_in_config, L_name>>)

\* the getattr(s3.StorageClass, ...) calls of one rule's transitions
RECURSIVE S3_transitions(_, _)
S3_transitions(M, trans) ==
    IF trans = <<>> THEN Return(M, <<>>)
    ELSE LET M1 == GetattrEnum(M, "StorageClass", StorageClass, Head(trans).storage_class)
             M2 == S3_transitions(M1, Tail(trans))
         IN  IF Failed(M2) THEN M2
             ELSE Return(M2, <<[storage_class |-> M1.ret,
                                transition_after |-> Head(trans).transition_after_days]>> \o M2.ret)

\* _add_lifecycle_rules(bucket, rules_config), from rule i on
RECURSIVE S3_add_lifecycle_rules(_, _, _, _)
S3_add_lifecycle_rules(M, bucket_id, rules_config, i) ==
    IF Failed(M) \/ i > Len(rules_config) THEN M
    ELSE LET rule_cfg == rules_config[i]
             M1 == S3_transitions(M, Get(rule_cfg, "transitions", <<>>))
             M2 == IF Failed(M1) THEN M1
                   ELSE Emit(M1, [ev |-> "rule", kind |-> "lifecycle", on |-> bucket_id,
                                  id |-> <<"L","i","f","e","c","y","c","l","e","R","u","l","e">> \o Str(i) \o L_dash
                                         \o Get(rule_cfg, "id", <<"d","e","f","a","u","l","t">>),
                                  enabled |-> Get(rule_cfg, "enabled", TRUE),
                                  transitions |-> M1.ret])
         IN  S3_add_lifecycle_rules(M2, bucket_id, rules_config, i + 1)

S3_create_base_bucket(M, bucket_cfg) ==
    LET bucket_name_in_config == bucket_cfg.name
        full_bucket_name == M.self.prj_name \o L_dash \o M.self.env_name \o L_dash \o bucket_name_in_config
        bucket_logical_id == Replace(bucket_name_in_config, "-", <<>>) \o L_Bucket
        M1 == GetattrEnum(M, "BucketAccessControl", BucketAccessControl,
                          Get(bucket_cfg, "access_control", L_PRIVATE))
        M2 == GetattrEnum(M1, "BucketEncryption", BucketEncryption,
                          Get(bucket_cfg, "encryption", L_S3_MANAGED))
        block_public_access == get_block_public_access(Get(bucket_cfg, "public_access_block", <<>>))
        M3 == GetattrEnum(M2, "RemovalPolicy", RemovalPolicy, Get(bucket_cfg, "removal_policy", L_RETAIN))
     IN Let(  NewConstruct(M3, "Bucket", bucket_logical_id,
                  [bucket_name |-> full_bucket_name, access_control |-> M1.ret,
                   encryption |-> M2.ret, block_public_access |-> block_public_access,
                   removal_policy |-> M3.ret,
                   auto_delete_objects |-> Get(bucket_cfg, "auto_delete_objects", FALSE),
                   versioned |-> Get(bucket_cfg, "versioned", FALSE)]), LAMBDA M4 :
    LET M5 == IF Failed(M4) THEN M4
              ELSE Remember(M4, "buckets", bucket_name_in_config,
                            Handle("built", "Bucket", bucket_logical_id))
        M6 == S3_add_lifecycle_rules(M5, bucket_logical_id, Get(bucket_cfg, "lifecycle_rules", <<>>), 1)
    IN  put_ssm_parameter(M6, S3_param_name(M.self, bucket_name_in_config),
                          Attr(bucket_logical_id, "bucket_name")))

S3_configure_bucket_logging(M, bucket_cfg) ==
    LET bucket == M.self.buckets[bucket_cfg.name]
        target == Get(bucket_cfg, "logging_target_bucket", <<>>)
        set_logging_target(MM, h) ==
            PrintLine(Emit(MM, [ev |-> "rule", kind |-> "logging", on |-> bucket.id, target |-> h]),
                      "INFO", "configure_bucket_logging", "Configured")
    IN  IF target = <<>> THEN M
        ELSE IF target \in DOMAIN M.self.buckets
        THEN set_logging_target(Resolved(M, "buckets", target, "cache", M.self.buckets[target]),
                                M.self.buckets[target])
        ELSE LET id == Replace(target, "-", <<>>) \o L_LoggingBucketImport
                 h == Handle("imported", "Bucket", id)
                 M1 == PrintLine(M, "INFO", "configure_bucket_logging", "NotFoundLocally")
                 M2 == NewConstruct(M1, "BucketImport", id, [bucket_name |-> target])
             IN  IF Failed(M2)
                 THEN [PrintLine(M2, "ERROR", "configure_bucket_logging", M2.err.cause)
                       EXCEPT !.err = NoError]
                 ELSE set_logging_target(Resolved(M2, "buckets", target, "import", h), h)

-----------------------------------------------------------------------------
(* src/stacks/storage/ecr.py                                               *)

L_ecr == <<"e","c","r">>
L_uri == <<"u","r","i">>
L_Repository == <<"R","e","p","o","s","i","t","o","r","y">>
L_MUTABLE == <<"M","U","T","A","B","L","E">>
L_AES_256 == <<"A","E","S","_","2","5","6">>
L_KMS == <<"K","M","S">>
L_ANY == <<"A","N","Y">>
L_ALLOW == <<"A","L","L","O","W">>

TagMutability == {<<"M","U","T","A","B","L","E">>, <<"I","M","M","U","T","A","B","L","E">>}
RepositoryEncryption == {<<"A","E","S","_","2","5","6">>, <<"K","M","S">>}
TagStatus == {<<"A","N","Y">>, <<"T","A","G","G","E","D">>, <<"U","N","T","A","G","G","E","D">>}
Effect == {<<"A","L","L","O","W">>, <<"D","E","N","Y">>}
PrincipalTypes == {"arn", "account_root", "service", "federated", "any_aws"}

Ecr_param_name(S, name_in_config, what) == Path(<<S.prj_name, S.env_name, L_ecr, name_in_config, what>>)

RECURSIVE Ecr_resolve_lifecycle_rules(_, _)
Ecr_resolve_lifecycle_rules(M, rules_configs) ==
    IF Failed(M) \/ rules_configs = <<>> THEN Return(M, <<>>)
    ELSE LET rule_cfg == Head(rules_configs)
             M1 == GetattrEnum(M, "TagStatus", TagStatus, Get(rule_cfg, "tag_status", L_ANY))
             M2 == Ecr_resolve_lifecycle_rules(M1, Tail(rules_configs))
         IN  IF Failed(M2) THEN M2
             ELSE Return(M2, <<[rule_priority |-> Get(rule_cfg, "rule_priority", None),
                                max_image_count |-> Get(rule_cfg, "max_image_count", None),
                                tag_status |-> M1.ret]>> \o M2.ret)

RECURSIVE Ecr_resolve_policy_principals(_, _)
Ecr_resolve_policy_principals(M, principals_config) ==
    IF Failed(M) \/ principals_config = <<>> THEN M
    ELSE IF Head(principals_config).type \in PrincipalTypes
    THEN Ecr_resolve_policy_principals(M, Tail(principals_config))
    ELSE Throw(M, "ValueError", "resolve_policy_principals", "UnsupportedPrincipalType")

RECURSIVE Ecr_resolve_repository_policy(_, _)
Ecr_resolve_repository_policy(M, policy_statements_config) ==
    IF Failed(M) \/ policy_statements_config = <<>> THEN Return(M, <<>>)
    ELSE LET stmt_conf == Head(policy_statements_config)
             M1 == GetattrEnum(M, "Effect", Effect, Get(stmt_conf, "effect", L_ALLOW))
             M2 == Ecr_resolve_policy_principals(M1, Get(stmt_conf, "principals", <<>>))
             M3 == Ecr_resolve_repository_policy(M2, Tail(policy_statements_config))
         IN  IF Failed(M3) THEN M3
             ELSE Return(M3, <<[actions |-> Get(stmt_conf, "actions", <<>>), effect |-> M1.ret,
                                principals |-> Get(stmt_conf, "principals", <<>>)]>> \o M3.ret)

Ecr_create_single_repository(M, repo_cfg) ==
    LET name_in_config == repo_cfg.name
        repository_name == Get(repo_cfg, "repository_name",
                               M.self.prj_name \o L_dash \o M.self.env_name \o L_dash \o name_in_config)
        M1 == GetattrEnum(M, "TagMutability", TagMutability,
                          Get(repo_cfg, "image_tag_mutability", L_MUTABLE))
        M2 == GetattrEnum(M1, "RepositoryEncryption", RepositoryEncryption,
                          Get(repo_cfg, "encryption", L_AES_256))
        M3 == GetattrEnum(M2, "RemovalPolicy", RemovalPolicy, Get(repo_cfg, "removal_policy", L_RETAIN))
        repo_logical_id == Replace(name_in_config, "-", <<>>) \o L_Repository
     IN Let(  Ecr_resolve_lifecycle_rules(M3, Get(repo_cfg, "lifecycle_rules", <<>>)), LAMBDA M4 :
    LET M5 == IF ~Failed(M4) /\ M2.ret = L_KMS /\ ~Has(repo_cfg, "kms_key_arn")
              THEN Throw(M4, "ValueError", "create_single_repository", "KmsWithoutKey") ELSE M4
     IN Let(  NewConstruct(M5, "Repository", repo_logical_id,
                  [repository_name |-> repository_name,
                   image_scan_on_push |-> Get(repo_cfg, "image_scan_on_push", TRUE),
                   image_tag_mutability |-> M1.ret, lifecycle_rules |-> M4.ret,
                   removal_policy |-> M3.ret,
                   empty_on_delete |-> Get(repo_cfg, "auto_delete_images", FALSE),
                   encryption |-> M2.ret]), LAMBDA M6 :
        Let(  IF Failed(M6) THEN M6
              ELSE Remember(M6, "repositories", name_in_config,
                            Handle("built", "Repository", repo_logical_id)), LAMBDA M7 :
    LET repo_policy_configs == Get(repo_cfg, "repository_policy_statements", <<>>)
     IN Let(  IF repo_policy_configs = <<>> THEN M7
              ELSE     Let( Ecr_resolve_repository_policy(M7, repo_policy_configs), LAMBDA R :
                       IF Failed(R) THEN R
                       ELSE PrintLine(Emit(R, [ev |-> "rule", kind |-> "resource_policy",
                                               on |-> repo_logical_id, statements |-> R.ret]),
                                      "INFO", "create_single_repository", "ConfiguredPolicy")), LAMBDA M8 :
        IF Get(repo_cfg, "store_ssm", TRUE)
        THEN put_ssm_parameter(
                 put_ssm_parameter(M8,
                     Get(repo_cfg, "ssm_uri_param_name", Ecr_param_name(M.self, name_in_config, L_uri)),
                     Attr(repo_logical_id, "repository_uri")),
                 Get(repo_cfg, "ssm_arn_param_name", Ecr_param_name(M.self, name_in_config, L_arn)),
                 Attr(repo_logical_id, "repository_arn"))
        ELSE M8))))

-----------------------------------------------------------------------------
(* src/stacks/compute/ecs.py                                               *)

L_Cluster == <<"C","l","u","s","t","e","r">>
L_ASG == <<"A","S","G">>
L_CapacityProvider == <<"C","a","p","a","c","i","t","y","P","r","o","v","i","d","e","r">>
L_TaskDef == <<"T","a","s","k","D","e","f">>
L_Service == <<"S","e","r","v","i","c","e">>
L_DefaultSG == <<"D","e","f","a","u","l","t","S","G">>
L_LogGroup == <<"L","o","g","G","r","o","u","p">>
L_Secret == <<"S","e","c","r","e","t">>
L_ExecutionRole == <<"E","x","e","c","u","t","i","o","n","R","o","l","e">>
L_TaskRole == <<"T","a","s","k","R","o","l","e">>
L_TGImport == <<"T","G","I","m","p","o","r","t">>
L_AlbTgScalingImport == <<"A","l","b","T","g","S","c","a","l","i","n","g","I","m","p","o","r","t">>
L_EC2 == <<"E","C","2">>
L_BRIDGE == <<"B","R","I","D","G","E">>
L_ONE_MONTH == <<"O","N","E","_","M","O","N","T","H">>
L_DESTROY == <<"D","E","S","T","R","O","Y">>
L_TCP == <<"T","C","P">>
L_REPLICA == <<"R","E","P","L","I","C","A">>
L_AL2 == <<"A","L","2">>
L_CPU == <<"C","P","U">>
L_MEMORY == <<"M","E","M","O","R","Y">>
L_ALB_REQUEST_COUNT_PER_TARGET == <<"A","L","B","_","R","E","Q","U","E","S","T","_","C","O","U","N","T","_","P","E","R","_","T","A","R","G","E","T">>

Compatibility == {<<"E","C","2">>, <<"F","A","R","G","A","T","E">>, <<"E","C","2","_","A","N","D","_","F","A","R","G","A","T","E">>, <<"E","X","T","E","R","N","A","L">>}
NetworkMode == {<<"N","O","N","E">>, <<"B","R","I","D","G","E">>, <<"A","W","S","_","V","P","C">>, <<"H","O","S","T">>}
RetentionDays == {<<"O","N","E","_","D","A","Y">>, <<"O","N","E","_","W","E","E","K">>, <<"O","N","E","_","M","O","N","T","H">>}
Protocol == {<<"T","C","P">>, <<"U","D","P">>}

\* s.replace(sub, ""), sub non-empty
RECURSIVE Remove(_, _)
Remove(s, sub) ==
    IF Len(s) < Len(sub) THEN s
    ELSE IF SubSeq(s, 1, Len(sub)) = sub THEN Remove(SubSeq(s, Len(sub) + 1, Len(s)), sub)
    ELSE <<Head(s)>> \o Remove(Tail(s), sub)

Ecs_vpc_id_param_name(S, vpc_key) == Path(<<S.prj_name, S.env_name, L_vpc, vpc_key>>)
Ecs_ssm_subnet_base_path(S, vpc_key, subnet_type) ==
    Path(<<S.prj_name, S.env_name, vpc_key, L_subnet, Lower(subnet_type)>>)
Ecs_sg_id_param_name(S, sg_name) == Path(<<S.prj_name, S.env_name, L_sg, sg_name>>)
Ecs_tg_arn_param(S, target_group_name) == Path(<<S.prj_name, S.env_name, L_targetgroup, target_group_name>>)

Ecs_get_vpc(M, vpc_key, subnet_type, azs) ==
    IF Failed(M) THEN M
    ELSE IF vpc_key \notin DOMAIN M.self.vpcs
    THEN LET name == Ecs_vpc_id_param_name(M.self, vpc_key)
             base == Ecs_ssm_subnet_base_path(M.self, vpc_key, subnet_type)
             count == IF azs # <<>> THEN Len(azs) ELSE DefaultSubnetCount
             id == Capitalize(vpc_key) \o L_VpcImport
             h == Handle("imported", "Vpc", id)
             M1 == get_ssm_parameter(M, name)
             M2 == get_ssm_subnet_ids(M1, base, count)
             M3 == IF Upper(subnet_type) \in SubnetType THEN M2
                   ELSE [M2 EXCEPT !.err = [Raise("ValueError", "get_vpc", "UnsupportedSubnetType")
                                            EXCEPT !.value = subnet_type]]
             M4 == NewConstruct(M3, "VpcImport", id,
                       [vpc_id |-> SsmToken(name), availability_zones |-> azs,
                        subnet_type |-> Upper(subnet_type),
                        subnet_ids |-> SubnetIdTokens(base, count)])
         IN  IF Failed(M4) THEN Reraise(M4, "ValueError", "import_vpc")
             ELSE Return(Resolved(Remember(M4, "vpcs", vpc_key, h), "vpcs", vpc_key, "registry", h), h)
    ELSE Return(Resolved(M, "vpcs", vpc_key, "cache", M.self.vpcs[vpc_key]), M.self.vpcs[vpc_key])

\* _get_security_groups(cluster_name, sg_names): M.ret is the list of handles
RECURSIVE Ecs_get_security_groups(_, _, _)
Ecs_get_security_groups(M, cluster_name, sg_names) ==
    IF Failed(M) THEN M
    ELSE IF sg_names = <<>> THEN Return(M, <<>>)
    ELSE LET sg_name == Head(sg_names)
             name == Ecs_sg_id_param_name(M.self, sg_name)
             id == Capitalize(cluster_name) \o Capitalize(sg_name) \o L_SGImport
             h == Handle("imported", "SecurityGroup", id)
          IN Let(  IF sg_name \notin DOMAIN M.self.security_groups
                   THEN LET G == NewConstruct(get_ssm_parameter(M, name), "SecurityGroupImport", id,
                                              [security_group_id |-> SsmToken(name)])
                        IN  IF Failed(G) THEN Reraise(G, "ValueError", "import_sg")
                            ELSE Resolved(Remember(G, "security_groups", sg_name, h),
                                          "security_groups", sg_name, "registry", h)
                   ELSE Resolved(M, "security_groups", sg_name, "cache", M.self.security_groups[sg_name]), LAMBDA M1 :
             Let(  Ecs_get_security_groups(M1, cluster_name, Tail(sg_names)), LAMBDA M2 :
             IF Failed(M2) THEN M2
             ELSE Return(M2, <<M1.self.security_groups[sg_name]>> \o M2.ret)))

RECURSIVE Ecs_resolve_iam_principals(_, _)
Ecs_resolve_iam_principals(M, principals_config) ==
    IF Failed(M) \/ principals_config = <<>> THEN M
    ELSE IF Head(principals_config).type \in PrincipalTypes
    THEN Ecs_resolve_iam_principals(M, Tail(principals_config))
    ELSE Throw(M, "ValueError", "resolve_iam_principals", "UnsupportedPrincipalType")

\* the loop over role_conf["inline_policies"]: each statement is resolved and
\* added to the role
RECURSIVE Ecs_inline_policies(_, _, _)
Ecs_inline_policies(M, role_id, stmts) ==
    IF Failed(M) \/ stmts = <<>> THEN M
    ELSE LET stmt_conf == Head(stmts)
             M1 == GetattrEnum(M, "Effect", Effect, Get(stmt_conf, "effect", L_ALLOW))
             M2 == Ecs_resolve_iam_principals(M1, Get(stmt_conf, "principals", <<>>))
             M3 == IF Failed(M2) THEN M2
                   ELSE Emit(M2, [ev |-> "rule", kind |-> "role_policy", on |-> role_id,
                                  actions |-> Get(stmt_conf, "actions", <<>>), effect |-> M1.ret])
         IN  Ecs_inline_policies(M3, role_id, Tail(stmts))

\* _create_execution_role / _create_task_role: `cache` is the role cache,
\* `suffix` the role id's suffix, `description` the default description
Ecs_create_role(M, cache, suffix, description, cluster_name, role_conf) ==
    IF Failed(M) THEN M
    ELSE LET role_id == Capitalize(cluster_name) \o suffix
         IN  IF role_id \notin DOMAIN M.self[cache]
             THEN LET M1 == NewConstruct(M, "Role", role_id,
                                [description |-> Get(role_conf, "description", description),
                                 managed_policies |-> Get(role_conf, "managed_policies", <<>>)])
                   IN Let(  Ecs_inline_policies(M1, role_id, Get(role_conf, "inline_policies", <<>>)), LAMBDA M2 :
                      IF Failed(M2) THEN M2
                      ELSE Return(Remember(M2, cache, role_id, Handle("built", "Role", role_id)),
                                  Handle("built", "Role", role_id)))
             ELSE Return(M, M.self[cache][role_id])

Ecs_create_execution_role(M, cluster_name, role_conf) ==
    Ecs_create_role(M, "task_execution_roles", L_ExecutionRole, <<"E","C","S"," ","T","a","s","k"," ","E","x","e","c","u","t","i","o","n"," ","R","o","l","e">>,
                    cluster_name, role_conf)

Ecs_create_task_role(M, cluster_name, role_conf) ==
    Ecs_create_role(M, "task_roles", L_TaskRole, <<"E","C","S"," ","T","a","s","k"," ","R","o","l","e"," ","f","o","r"," ","a","p","p","l","i","c","a","t","i","o","n">>,
                    cluster_name, role_conf)

\* the loop over container_conf["secrets"].items(): one secret import each
RECURSIVE Ecs_container_secrets(_, _, _)
Ecs_container_secrets(M, container_name, secrets) ==
    IF Failed(M) \/ secrets = <<>> THEN M
    ELSE Ecs_container_secrets(
             NewConstruct(M, "SecretImport",
                 L_Secret \o Capitalize(container_name) \o Upper(Head(secrets).env_key),
                 [secret_name |-> Head(secrets).secret_name]),
             container_name, Tail(secrets))

\* the loop over container_conf["port_mappings"]
RECURSIVE Ecs_port_mappings(_, _, _)
Ecs_port_mappings(M, container_id, pms) ==
    IF Failed(M) \/ pms = <<>> THEN M
    ELSE LET pm_conf == Head(pms)
             M1 == GetattrEnum(M, "Protocol", Protocol, Get(pm_conf, "protocol", L_TCP))
             M2 == IF Failed(M1) THEN M1
                   ELSE Emit(M1, [ev |-> "rule", kind |-> "port_mapping", on |-> container_id,
                                  container_port |-> pm_conf.container_port,
                                  host_port |-> Get(pm_conf, "host_port", pm_conf.container_port),
                                  protocol |-> M1.ret])
         IN  Ecs_port_mappings(M2, container_id, Tail(pms))

Ecs_add_container_to_task_definition(M, task_def, container_conf) ==
    IF Failed(M) THEN M
    ELSE LET container_name == container_conf.name
             M1 == Ecs_container_secrets(M, container_name, Get(container_conf, "secrets", <<>>))
             log_config_conf == Get(container_conf, "log_config", <<>>)
             logged == Get(log_config_conf, "enabled", TRUE)
             log_group_logical_id == Capitalize(container_name) \o L_LogGroup
             R1 == GetattrEnum(M1, "RetentionDays", RetentionDays,
                               Get(log_config_conf, "retention_days", L_ONE_MONTH))
             R2 == GetattrEnum(R1, "RemovalPolicy", RemovalPolicy,
                               Get(log_config_conf, "removal_policy", L_DESTROY))
             M2 == IF logged
                   THEN NewConstruct(R2, "LogGroup", log_group_logical_id,
                            [log_group_name |-> M.self.prj_name \o L_dash \o M.self.env_name \o L_dash
                                                \o container_name \o <<"-","l","o","g","s">>,
                             retention |-> R1.ret, removal_policy |-> R2.ret])
                   ELSE M1
             health_check_conf == Get(container_conf, "container_health_check", <<>>)
             M3 == NewConstruct(M2, "ContainerDefinition", ChildId(task_def, container_name),
                       [image |-> container_conf.image,
                        log_group |-> IF logged THEN log_group_logical_id ELSE <<>>,
                        health_check |-> Get(health_check_conf, "enabled", FALSE)
                                         /\ Has(health_check_conf, "command"),
                        cpu |-> Get(container_conf, "cpu", 0)])
         IN  Ecs_port_mappings(M3, ChildId(task_def, container_name),
                               Get(container_conf, "port_mappings", <<>>))

RECURSIVE Ecs_add_containers(_, _, _)
Ecs_add_containers(M, task_def, containers_conf) ==
    IF Failed(M) \/ containers_conf = <<>> THEN M
    ELSE Ecs_add_containers(Ecs_add_container_to_task_definition(M, task_def, Head(containers_conf)),
                            task_def, Tail(containers_conf))

Ecs_add_load_balancer_to_service(M, service, lb_conf) ==
    IF Failed(M) THEN M
    ELSE LET target_group_name == lb_conf.tg_name
             attach(MM, h) ==
                 PrintLine(Emit(MM, [ev |-> "rule", kind |-> "attach", on |-> service, target |-> h]),
                           "INFO", "add_load_balancer_to_service", "Attached")
         IN  IF target_group_name \notin DOMAIN M.self.target_groups
             THEN LET tg_arn_param == Ecs_tg_arn_param(M.self, target_group_name)
                      id == Capitalize(target_group_name) \o L_TGImport
                      h == Handle("imported", "TargetGroup", id)
                      M1 == NewConstruct(get_ssm_parameter(M, tg_arn_param), "TargetGroupImport", id,
                                         [target_group_arn |-> SsmToken(tg_arn_param)])
                  IN  IF Failed(M1) THEN Reraise(M1, "ValueError", "import_tg")
                      ELSE attach(Resolved(Remember(M1, "target_groups", target_group_name, h),
                                           "target_groups", target_group_name, "registry", h), h)
             ELSE attach(Resolved(M, "target_groups", target_group_name, "cache",
                                  M.self.target_groups[target_group_name]),
                         M.self.target_groups[target_group_name])

RECURSIVE Ecs_lb_integrations(_, _, _)
Ecs_lb_integrations(M, service, lbs) ==
    IF Failed(M) \/ lbs = <<>> THEN M
    ELSE Ecs_lb_integrations(Ecs_add_load_balancer_to_service(M, service, Head(lbs)), service, Tail(lbs))

Ecs_add_service_auto_scaling(M, service, auto_scaling_conf) ==
    IF Failed(M) THEN M
    ELSE LET metric_type == Upper(auto_scaling_conf.metric_type)
             service_name_in_config == Remove(service, L_Service)
             M1 == Emit(M, [ev |-> "rule", kind |-> "auto_scale_task_count", on |-> service,
                            min_capacity |-> Get(auto_scaling_conf, "min_capacity", 1),
                            max_capacity |-> Get(auto_scaling_conf, "max_capacity", 10)])
             scale(MM, kind, id) ==
                 Emit(MM, [ev |-> "rule", kind |-> kind, on |-> service,
                           id |-> id \o service_name_in_config,
                           target_value |-> auto_scaling_conf.target_value])
         IN  IF metric_type = L_CPU THEN scale(M1, "scale_on_cpu", <<"C","p","u","S","c","a","l","i","n","g","-">>)
             ELSE IF metric_type = L_MEMORY THEN scale(M1, "scale_on_memory", <<"M","e","m","o","r","y","S","c","a","l","i","n","g","-">>)
             ELSE IF metric_type = L_ALB_REQUEST_COUNT_PER_TARGET
             THEN IF Get(auto_scaling_conf, "alb_target_group_arn_param", <<>>) = <<>>
                  THEN Throw(M1, "ValueError", "add_service_auto_scaling", "MissingArnParam")
                  ELSE LET key == auto_scaling_conf.alb_target_group_arn_param
                           M2 == NewConstruct(get_ssm_parameter(M1, key), "TargetGroupImport",
                                     service_name_in_config \o L_AlbTgScalingImport,
                                     [target_group_arn |-> SsmToken(key)])
                       IN  IF Failed(M2) THEN M2
                           ELSE scale(M2, "scale_on_request_count", <<"A","l","b","R","e","q","u","e","s","t","S","c","a","l","i","n","g","-">>)
             ELSE PrintLine(M1, "WARNING", "add_service_auto_scaling", "UnsupportedMetricType")

Ecs_create_ecs_service(M, cluster, vpc, cluster_sgs, svc_conf, execution_role) ==
    IF Failed(M) THEN M
    ELSE LET service_name_in_config == svc_conf.name
             M1 == GetattrEnum(M, "Compatibility", Compatibility, Get(svc_conf, "compatibility", L_EC2))
             M2 == GetattrEnum(M1, "NetworkMode", NetworkMode, Get(svc_conf, "network_mode", L_BRIDGE))
             task_logical_id == Capitalize(service_name_in_config) \o L_TaskDef
          IN Let(  NewConstruct(M2, "TaskDefinition", task_logical_id,
                       [compatibility |-> M1.ret, network_mode |-> M2.ret,
                        execution_role |-> execution_role,
                        cpu |-> Get(svc_conf, "task_cpu", 256),
                        memory_mib |-> Get(svc_conf, "task_memory_mib", 512)]), LAMBDA M3 :
         LET containers_conf ==
                 IF Get(svc_conf, "containers", <<>>) # <<>> THEN svc_conf.containers
                 ELSE <<[k \in {"name", "image"} \cup
                              (DOMAIN svc_conf \cap {"secrets", "cpu", "port_mappings",
                                                     "container_health_check", "log_config"}) |->
                           IF k = "name" THEN service_name_in_config ELSE svc_conf[k]]>>
             M4 == IF ~Failed(M3) /\ Get(svc_conf, "containers", <<>>) = <<>> /\ ~Has(svc_conf, "image")
                   THEN Throw(M3, "KeyError", "create_ecs_service", "image")
                   ELSE Ecs_add_containers(M3, task_logical_id, containers_conf)
             service_logical_id == service_name_in_config \o L_Service
          IN Let(  Ecs_get_security_groups(M4, service_name_in_config,
                                           Get(svc_conf, "service_security_groups", <<>>)), LAMBDA M5 :
             Let(  IF Failed(M5) \/ M5.ret # <<>> \/ cluster_sgs # <<>> THEN M5
                   ELSE LET W == PrintLine(M5, "WARNING", "create_ecs_service", "NoSecurityGroups")
                         IN Let( NewConstruct(W, "SecurityGroup", service_logical_id \o L_DefaultSG,
                                              [vpc |-> vpc]), LAMBDA D :
                            IF Failed(D) THEN D
                            ELSE Emit(D, [ev |-> "rule", kind |-> "ingress",
                                          on |-> service_logical_id \o L_DefaultSG,
                                          peer |-> "any_ipv4", port |-> "all_traffic"])), LAMBDA M6 :
         LET service_sgs == IF Failed(M5) THEN <<>>
                            ELSE IF M5.ret # <<>> THEN M5.ret
                            ELSE IF cluster_sgs # <<>> THEN cluster_sgs
                            ELSE <<Handle("built", "SecurityGroup", service_logical_id \o L_DefaultSG)>>
             M7 == IF Has(svc_conf, "service_subnet_type")
                   THEN GetattrEnum(M6, "SubnetType", SubnetType, svc_conf.service_subnet_type)
                   ELSE M6
          IN Let(  NewConstruct(M7, "Ec2Service", service_logical_id,
                       [cluster |-> cluster,
                        service_name |-> M.self.prj_name \o L_dash \o M.self.env_name \o L_dash
                                         \o service_name_in_config \o <<"-","s","e","r","v","i","c","e">>,
                        task_definition |-> task_logical_id,
                        min_healthy_percent |-> Get(svc_conf, "min_healthy_percent", 50),
                        max_healthy_percent |-> Get(svc_conf, "max_healthy_percent", 100),
                        scheduling_strategy |-> Upper(Get(svc_conf, "scheduling_strategy", L_REPLICA))]), LAMBDA M8 :
         LET M9 == IF Failed(M8) THEN M8
                   ELSE Emit(M8, [ev |-> "service", id |-> service_logical_id, resolved_sgs |-> service_sgs])
          IN Let(   Ecs_lb_integrations(M9, service_logical_id,
                                        Get(svc_conf, "load_balancer_integrations", <<>>)), LAMBDA M10 :
             IF Has(svc_conf, "auto_scaling_target_tracking")
             THEN Ecs_add_service_auto_scaling(M10, service_logical_id, svc_conf.auto_scaling_target_tracking)
             ELSE M10)))))

RECURSIVE Ecs_services(_, _, _, _, _, _)
Ecs_services(M, cluster, vpc, cluster_sgs, services, execution_role) ==
    IF Failed(M) \/ services = <<>> THEN M
    ELSE Ecs_services(Ecs_create_ecs_service(M, cluster, vpc, cluster_sgs, Head(services), execution_role),
                      cluster, vpc, cluster_sgs, Tail(services), execution_role)

Ecs_create_single_cluster_and_services(M, cluster_conf) ==
    LET cluster_name_in_config == cluster_conf.name
        azs == Get(cluster_conf, "availability_zones", <<>>)
        asg_subnet_type == Upper(Get(cluster_conf, "asg_subnet_type", L_PUBLIC))
     IN Let(  Ecs_get_vpc(M, cluster_conf.vpc, asg_subnet_type, azs), LAMBDA M1 :
        Let(  Ecs_get_security_groups(M1, cluster_name_in_config, Get(cluster_conf, "security_groups", <<>>)), LAMBDA M2 :
    LET cluster_logical_id == Capitalize(cluster_name_in_config) \o L_Cluster
     IN Let(  NewConstruct(M2, "Cluster", cluster_logical_id,
                  [cluster_name |-> M.self.prj_name \o L_dash \o M.self.env_name \o L_dash
                                    \o cluster_name_in_config \o <<"-","c","l","u","s","t","e","r">>,
                   vpc |-> M1.ret]), LAMBDA M3 :
        Let(  IF Failed(M3) THEN M3
              ELSE Remember(M3, "ecs_clusters", cluster_name_in_config,
                            Handle("built", "Cluster", cluster_logical_id)), LAMBDA M4 :
    LET M5 == IF Get(cluster_conf, "capacity_provider_type", <<>>) = L_ASG
              THEN     Let(  GetattrEnum(M4, "SubnetType", SubnetType, asg_subnet_type), LAMBDA A1 :
                   LET A2 == NewConstruct(A1, "AutoScalingGroup", cluster_name_in_config \o L_ASG,
                                 [vpc |-> M1.ret, instance_type |-> cluster_conf.instance_type,
                                  machine_image |-> IF Get(cluster_conf, "asg_ami_type", L_AL2) = L_AL2
                                                    THEN "amazon_linux2" ELSE "amazon_linux2_arm64",
                                  vpc_subnets |-> A1.ret,
                                  security_group |-> IF M2.ret # <<>> THEN M2.ret[1] ELSE NoHandle])
                    IN Let(  NewConstruct(A2, "AsgCapacityProvider",
                                 cluster_name_in_config \o L_CapacityProvider,
                                 [auto_scaling_group |-> cluster_name_in_config \o L_ASG]), LAMBDA A3 :
                       IF Failed(A3) THEN A3
                       ELSE PrintLine(A3, "INFO", "create_single_cluster_and_services", "AddedCapacityProvider")))
              ELSE M4
     IN Let(  Ecs_create_execution_role(M5, cluster_name_in_config, Get(cluster_conf, "task_execution_role", <<>>)), LAMBDA M6 :
    LET M7 == Ecs_create_task_role(M6, cluster_name_in_config, Get(cluster_conf, "task_role", <<>>))
    IN  Ecs_services(M7, cluster_logical_id, M1.ret, M2.ret, Get(cluster_conf, "services", <<>>), M6.ret))))))

-----------------------------------------------------------------------------
(* src/stacks/ci_cd/pipeline.py                                            *)

L_Vpc == <<"V","p","c">>
L_ArtifactBucket == <<"A","r","t","i","f","a","c","t","B","u","c","k","e","t">>
L_GitHubToken == <<"G","i","t","H","u","b","T","o","k","e","n">>
L_BuildProject == <<"B","u","i","l","d","P","r","o","j","e","c","t">>
L_Pipeline == <<"P","i","p","e","l","i","n","e">>

ActionTypes == {<<"g","i","t","h","u","b","_","s","o","u","r","c","e">>, <<"c","o","d","e","b","u","i","l","d">>, <<"e","c","s","_","d","e","p","l","o","y">>}

\* the subnet count _get_vpc asks get_ssm_subnet_ids for
PipelineSubnetCount == 2

Pipe_public_subnet_path(S, vpc_name) == Path(<<S.prj_name, S.env_name, vpc_name, L_subnet, L_public>>)
Pipe_vpc_param(S, vpc_name) == Path(<<S.prj_name, S.env_name, L_vpc, vpc_name>>)

Pipe_get_vpc(M, pipeline_name, vpc_name, azs) ==
    LET base == Pipe_public_subnet_path(M.self, vpc_name)
        vpc_param == Pipe_vpc_param(M.self, vpc_name)
        id == pipeline_name \o L_Vpc
        h == Handle("imported", "Vpc", id)
        M1 == get_ssm_subnet_ids(M, base, PipelineSubnetCount)
        M2 == get_ssm_parameter(M1, vpc_param)
        M3 == NewConstruct(M2, "VpcImport", id,
                  [vpc_id |-> SsmToken(vpc_param), availability_zones |-> azs,
                   public_subnet_ids |-> SubnetIdTokens(base, PipelineSubnetCount)])
    IN  IF Failed(M3) THEN M3
        ELSE Return(Resolved(M3, "vpcs", vpc_name, "registry", h), h)

Pipe_get_github_token(M, pipeline_name) ==
    NewConstruct(M, "SecretImport", pipeline_name \o L_GitHubToken,
                 [secret_name |-> M.self.prj_name \o <<"/">> \o M.self.env_name \o <<"/","g","i","t","h","u","b","-","t","o","k","e","n">>])

RECURSIVE Pipe_role_policies(_, _, _)
Pipe_role_policies(M, project, policy_statements_config) ==
    IF Failed(M) \/ policy_statements_config = <<>> THEN M
    ELSE LET policy_conf == Head(policy_statements_config)
             M1 == GetattrEnum(M, "Effect", Effect, Get(policy_conf, "effect", L_ALLOW))
             M2 == IF Failed(M1) THEN M1
                   ELSE Emit(M1, [ev |-> "rule", kind |-> "role_policy", on |-> project,
                                  actions |-> Get(policy_conf, "actions", <<>>), effect |-> M1.ret])
         IN  Pipe_role_policies(M2, project, Tail(policy_statements_config))

Pipe_create_codebuild_project(M, svc_name, cache_prefix, policy_statements_config, artifact_bucket) ==
    LET id == Capitalize(svc_name) \o L_BuildProject
        M1 == NewConstruct(M, "PipelineProject", id,
                  [project_name |-> M.self.prj_name \o L_dash \o M.self.env_name \o L_dash
                                    \o svc_name \o <<"-","b","u","i","l","d">>,
                   cache_bucket |-> artifact_bucket, cache_prefix |-> cache_prefix])
    IN  Pipe_role_policies(M1, id, policy_statements_config)

\* _create_action: M.ret is the action, or None for an unsupported type
Pipe_create_action(M, action_conf, svc_name) ==
    LET action_type == action_conf.type
        action_name == Get(action_conf, "action_name",
                           Capitalize(svc_name) \o <<"_">> \o Capitalize(action_type))
    IN  IF action_type \in ActionTypes
        THEN Return(M, [type |-> action_type, action_name |-> action_name])
        ELSE Return(Annotate(M, "warning", "create_action", "UnsupportedActionType"), None)

\* the inner loop over stage_conf["actions"]: M.ret is actions_list
RECURSIVE Pipe_actions(_, _, _)
Pipe_actions(M, actions, svc_name) ==
    IF actions = <<>> THEN Return(M, <<>>)
    ELSE LET M1 == Pipe_create_action(M, Head(actions), svc_name)
             M2 == Pipe_actions(M1, Tail(actions), svc_name)
         IN  Return(M2, (IF M1.ret # None THEN <<M1.ret>> ELSE <<>>) \o M2.ret)

\* the loop over svc_conf["stages"]
RECURSIVE Pipe_stages(_, _, _, _)
Pipe_stages(M, pipeline, stages, svc_name) ==
    IF Failed(M) \/ stages = <<>> THEN M
    ELSE LET M1 == Pipe_actions(M, Get(Head(stages), "actions", <<>>), svc_name)
             M2 == IF M1.ret # <<>>
                   THEN Emit(M1, [ev |-> "rule", kind |-> "stage", on |-> pipeline,
                                  stage_name |-> Head(stages).name, actions |-> M1.ret])
                   ELSE M1
         IN  Pipe_stages(M2, pipeline, Tail(stages), svc_name)

Pipe_create_service_pipeline(M, svc_name, svc_conf) ==
    LET M1 == Pipe_get_vpc(M, svc_name, svc_conf.vpc, Get(svc_conf, "availability_zones", <<>>))
        bucket == Capitalize(svc_name) \o L_ArtifactBucket
        M2 == NewConstruct(M1, "BucketImport", bucket, [bucket_name |-> svc_conf.artifact_bucket])
        M3 == Pipe_get_github_token(M2, svc_name)
        M4 == Pipe_create_codebuild_project(M3, svc_name, svc_conf.build_cache_prefix,
                                            Get(svc_conf, "codebuild_policy_statements", <<>>), bucket)
        pipeline == Capitalize(svc_name) \o L_Pipeline
        M5 == NewConstruct(M4, "Pipeline", pipeline,
                  [pipeline_name |-> M.self.prj_name \o L_dash \o M.self.env_name \o L_dash
                                     \o svc_name \o <<"-","p","i","p","e","l","i","n","e">>,
                   artifact_bucket |-> bucket])
        M6 == NewConstruct(M5, "ClusterImport", Capitalize(svc_name) \o L_Cluster,
                  [cluster_name |-> svc_conf.ecs_cluster_name, vpc |-> M1.ret])
        M7 == NewConstruct(M6, "Ec2ServiceImport", Capitalize(svc_name) \o L_Service,
                  [service_name |-> svc_conf.ecs_service_name,
                   cluster |-> Capitalize(svc_name) \o L_Cluster])
    IN  Pipe_stages(M7, pipeline, Get(svc_conf, "stages", <<>>), svc_name)

-----------------------------------------------------------------------------
(* src/app.py                                                              *)

S_Vpc == <<"V","p","c","S","t","a","c","k">>
S_SecurityGroup == <<"S","e","c","u","r","i","t","y","G","r","o","u","p","S","t","a","c","k">>
S_ECR == <<"E","C","R","S","t","a","c","k">>
S_RDS == <<"R","D","S","S","t","a","c","k">>
S_Alb == <<"A","l","b","S","t","a","c","k">>
S_ECS == <<"E","C","S","S","t","a","c","k">>
S_IAM == <<"I","A","M","S","t","a","c","k">>
S_S3 == <<"S","3","B","u","c","k","e","t","S","t","a","c","k">>
S_Backend == <<"C","o","d","e","P","i","p","e","l","i","n","e","B","a","c","k","e","n","d","S","t","a","c","k">>
S_Frontend == <<"C","o","d","e","P","i","p","e","l","i","n","e","F","r","o","n","t","e","n","d","S","t","a","c","k">>

\* cdk.App(): an empty construct tree
NewApp == [prj_name |-> <<>>, env_name |-> <<>>, children |-> {}]

\* cidr = context "vpc_cidr" or $VPC_CIDR or "10.0.0.0/16"
App_cidr(context, environ) ==
    IF Get(context, "vpc_cidr", <<>>) # <<>> THEN context.vpc_cidr
    ELSE IF Get(environ, "VPC_CIDR", <<>>) # <<>> THEN environ.VPC_CIDR
    ELSE <<"1","0",".","0",".","0",".","0","/","1","6">>

\* int(s) of a one-digit string; anything else raises ValueError
IsDigit(s) == Len(s) = 1 /\ \E d \in 1..10 : Digits[d] = s[1]
ParseInt(s) == CHOOSE n \in 0..9 : Digits[n + 1] = s[1]

\* max_azs = context "max_azs" or int($MAX_AZS or 2)
App_max_azs(M, context, environ) ==
    IF Get(context, "max_azs", 0) # 0 THEN Return(M, context.max_azs)
    ELSE IF Get(environ, "MAX_AZS", <<>>) = <<>> THEN Return(M, 2)
    ELSE IF IsDigit(environ.MAX_AZS) THEN Return(M, ParseInt(environ.MAX_AZS))
    ELSE Throw(M, "ValueError", "int", "InvalidLiteral")

\* <stack variable>.<attr>: the stack must have been constructed
StackAttr(M, stack, attr) ==
    IF Failed(M) THEN M
    ELSE IF stack \in M.self.children THEN Return(M, Attr(stack, attr))
    ELSE Throw(M, "NameError", attr, "NotDefined")

\* the stacks whose attributes the constructor call of `stack` is handed
App_arguments(stack) ==
    CASE stack = S_SecurityGroup -> <<[arg |-> "vpc", of |-> S_Vpc, attr |-> "vpc"]>>
      [] stack = S_RDS -> <<[arg |-> "vpc", of |-> S_Vpc, attr |-> "vpc"],
                            [arg |-> "db_sg", of |-> S_SecurityGroup, attr |-> "db_sg"]>>
      [] stack = S_Alb -> <<[arg |-> "vpc", of |-> S_Vpc, attr |-> "vpc"],
                            [arg |-> "alb_sg", of |-> S_SecurityGroup, attr |-> "alb_sg"]>>
      [] stack = S_ECS -> <<[arg |-> "vpc", of |-> S_Vpc, attr |-> "vpc"],
                            [arg |-> "frontend_tg", of |-> S_Alb, attr |-> "frontend_tg"],
                            [arg |-> "backend_tg", of |-> S_Alb, attr |-> "backend_tg"],
                            [arg |-> "backend_image", of |-> S_ECR, attr |-> "repositories"],
                            [arg |-> "frontend_image", of |-> S_ECR, attr |-> "repositories"],
                            [arg |-> "frontend_sg", of |-> S_SecurityGroup, attr |-> "frontend_sg"],
                            [arg |-> "backend_sg", of |-> S_SecurityGroup, attr |-> "backend_sg"]>>
      [] stack \in {S_Backend, S_Frontend} ->
                          <<[arg |-> "artifactbucket", of |-> S_S3, attr |-> "artifact_bucket"],
                            [arg |-> "vpc", of |-> S_Vpc, attr |-> "vpc"]>>
      [] OTHER -> <<>>

\* evaluating the arguments of a constructor call, left to right
RECURSIVE App_evaluate(_, _)
App_evaluate(M, args) ==
    IF Failed(M) \/ args = <<>> THEN M
    ELSE App_evaluate(StackAttr(M, Head(args).of, Head(args).attr), Tail(args))

\* SomeStack(app, id, ...): the arguments are evaluated, then the stack is built
App_construct(M, stack, extra) ==
    LET M1 == App_evaluate(M, App_arguments(stack))
        M2 == NewConstruct(M1, "Stack", stack,
                  [uses |-> {App_arguments(stack)[i].of : i \in 1..Len(App_arguments(stack))},
                   extra |-> extra])
    IN  M2

\* the stacks in the order load balancer, then storage, then compute
App_next_by_category(stack) ==
    CASE stack = S_Vpc -> S_SecurityGroup
      [] stack = S_SecurityGroup -> S_Alb
      [] stack = S_Alb -> S_ECR
      [] stack = S_ECR -> S_RDS
      [] stack = S_RDS -> S_S3
      [] stack = S_S3 -> S_ECS
      [] stack = S_ECS -> S_IAM
      [] stack = S_IAM -> S_Backend
      [] stack = S_Backend -> S_Frontend
      [] OTHER -> <<"s","y","n","t","h">>


\* the statement that follows the construction of `stack` in app.py
App_next(stack) ==
    CASE stack = S_Vpc -> S_SecurityGroup
      [] stack = S_SecurityGroup -> S_ECR
      [] stack = S_ECR -> S_RDS
      [] stack = S_RDS -> S_Alb
      [] stack = S_Alb -> S_ECS
      [] stack = S_ECS -> S_IAM
      [] stack = S_IAM -> S_S3
      [] stack = S_S3 -> S_Backend
      [] stack = S_Backend -> S_Frontend
      [] OTHER -> <<"s","y","n","t","h">>

-----------------------------------------------------------------------------
(* What a pass has emitted.                                                *)

Events(kind) == {i \in 1..Len(out) : out[i].ev = kind}
PutEvents == {i \in Events("declare") : out[i].type = "StringParameter"}
PutKey(i) == out[i].props.parameter_name
GetEvents == Events("get")

-----------------------------------------------------------------------------
(* Configuration documents the passes are run on.                          *)

\* sequences over S of length 0..n
RECURSIVE SeqsUpTo(_, _)
SeqsUpTo(S, n) ==
    IF n = 0 THEN {<<>>}
    ELSE LET shorter == SeqsUpTo(S, n - 1)
         IN  shorter \cup {Append(q, x) : q \in {r \in shorter : Len(r) = n - 1}, x \in S}

N_acme == <<"a","c","m","e">>
N_dev == <<"d","e","v">>
N_main == <<"m","a","i","n">>
N_a == <<"a">>
N_b == <<"b">>
N_x == <<"x">>
N_cidr == <<"1","0",".","0",".","0",".","0","/","8">>
N_az == <<"a","z","1">>

Doc(category, specs) ==
    (category :> specs) @@ [project_name |-> N_acme, env |-> N_dev]

P80 == [int |-> 80]
R_cidr == [cidr |-> N_cidr, port |-> P80]
R_sg(n) == [source_sg |-> n, port |-> P80]
R_nopeer == [port |-> P80]
R_all4_off == [all_ipv4 |-> FALSE, port |-> P80]
R_noport == [cidr |-> N_cidr]
R_icmp_int == [cidr |-> N_cidr, protocol |-> L_icmp, port |-> P80]
R_range == [cidr |-> N_cidr, protocol |-> <<"U","D","P">>, from_port |-> P80, to_port |-> P80]

SgRuleLists ==
    { <<>>, <<R_cidr>>, <<R_sg(N_a)>>, <<R_sg(N_b)>>, <<R_sg(N_x)>>, <<R_sg(N_x), R_sg(N_x)>>,
      <<R_nopeer>>, <<R_nopeer, R_range>>, <<R_all4_off>>, <<R_noport, R_icmp_int>> }

SgSpecs ==
    { [name |-> n, vpc |-> N_main, availability_zones |-> <<N_az>>, ingress |-> rs] :
        n \in {N_a, N_b}, rs \in SgRuleLists }
    \cup
    { [name |-> N_a, vpc |-> N_main, availability_zones |-> <<N_az>>,
       allow_all_outbound |-> FALSE, egress |-> rs] : rs \in {<<R_sg(N_x)>>, <<R_nopeer>>} }

N_c == <<"c">>
N_d == <<"d">>
N_a_b == <<"a","-","b">>
N_b_c == <<"b","-","c">>
N_w == <<"w">>
N_dom == <<"d",".","i","o">>
N_az2 == <<"a","z","2">>

\* a target-group entry with one path condition, and what `extra` overrides
TgEntry(name, extra) == extra @@ [name |-> name, port |-> P80, path_patterns |-> <<<<"/">>>>]
Forward(ref) == [action |-> [type |-> "forward", target_group_name_ref |-> ref]]
NoExtra == [port |-> P80]

AlbSpec(name, extra, tgs) ==
    extra @@ [name |-> name, vpc |-> N_main, sg |-> N_a, availability_zones |-> <<N_az, N_az2>>,
              domain_name |-> N_dom, certificate |-> [id |-> N_c, main_subdomain |-> N_w],
              target_groups |-> tgs]

AlbSpecs ==
    { AlbSpec(N_a, [internet_facing |-> FALSE], <<>>),
      AlbSpec(N_a, NoExtra, <<TgEntry(N_c, NoExtra)>>),
      AlbSpec(N_a, NoExtra, <<TgEntry(N_b_c, NoExtra)>>),
      AlbSpec(N_a_b, NoExtra, <<TgEntry(N_c, NoExtra)>>),
      AlbSpec(N_a, [default_https_action |-> Forward(N_x).action], <<TgEntry(N_c, Forward(N_x))>>),
      AlbSpec(N_b, NoExtra, <<TgEntry(N_c, Forward(N_x)), TgEntry(N_d, Forward(N_c))>>),
      AlbSpec(N_b, NoExtra, <<TgEntry(N_c, Forward(N_d)), TgEntry(N_d, NoExtra)>>),
      AlbSpec(N_a, NoExtra, <<TgEntry(N_c, [protocol |-> <<"S","C","T","P">>])>>),
      AlbSpec(N_b, NoExtra,
              <<TgEntry(N_d, NoExtra),
                [name |-> N_c, port |-> P80, protocol |-> <<"h","t","t","p","s">>, target_type |-> <<"i","p">>]>>),
      AlbSpec(N_b, [http_redirect_to_https |-> [enabled |-> TRUE], sg |-> N_b],
              <<[name |-> N_c, port |-> P80, host_headers |-> <<N_w>>]>>),
      AlbSpec(N_a, [default_https_action |-> Forward(N_c).action], <<TgEntry(N_c, NoExtra)>>),
      AlbSpec(N_a, NoExtra, <<TgEntry(N_c, NoExtra), [name |-> N_d, port |-> P80], TgEntry(N_x, NoExtra)>>),
      AlbSpec(N_b, NoExtra, <<TgEntry(N_c, [action |-> [type |-> "forward"]])>>),
      AlbSpec(N_b, [default_https_action |-> [type |-> "bogus"]], <<TgEntry(N_c, NoExtra)>>),
      AlbSpec(N_b, [default_https_action |-> Forward(N_x).action],
              <<TgEntry(N_d, [action |-> [type |-> "redirect"]])>>),
      AlbSpec(N_b, [certificate |-> [id |-> N_d, type |-> "import"]], <<TgEntry(N_c, NoExtra)>>) }

AlbConfigs ==
    {Doc("albs", q) : q \in SeqsUpTo(AlbSpecs, MaxSpecs)}

SubnetCfg(name, type) == [name |-> name, type |-> type]

VpcSubnetLists ==
    { <<>>,
      <<SubnetCfg(<<"P","u","b","l","i","c">>, <<"p","u","b","l","i","c">>)>>,
      <<SubnetCfg(<<"p","u","b","l","i","c">>, <<"P","U","B","L","I","C">>), SubnetCfg(<<"P","r","i","v","a","t","e">>, <<"p","r","i","v","a","t","e","_","i","s","o","l","a","t","e","d">>)>>,
      <<SubnetCfg(<<"A","p","p">>, <<"P","U","B","L","I","C">>), SubnetCfg(<<"a","p","p">>, <<"P","R","I","V","A","T","E","_","I","S","O","L","A","T","E","D">>)>>,
      <<SubnetCfg(<<"A">>, <<"P","U","B","L","I","C">>), SubnetCfg(<<"B">>, <<"P","U","B","L","I","C">>)>>,
      <<SubnetCfg(<<"W","e","b">>, <<"P","U","B","L","I","C">>), SubnetCfg(<<"D","b">>, <<"I","S","O","L","A","T","E","D","_","P","R","I","V","A","T","E">>)>>,
      <<SubnetCfg(<<"p","u","b","l","i","c">>, <<"P","U","B","L","I","C">>), SubnetCfg(<<"p","r","i","v","a","t","e","_","w","i","t","h","_","e","g","r","e","s","s">>, <<"P","R","I","V","A","T","E","_","W","I","T","H","_","E","G","R","E","S","S">>)>> }

VpcSpecs ==
    { [name |-> n, cidr |-> N_cidr, subnets |-> sn] : n \in {N_main, N_a}, sn \in VpcSubnetLists }
    \cup { [name |-> N_main, cidr |-> N_cidr, max_azs |-> 1, enable_dns_support |-> FALSE,
            subnets |-> <<SubnetCfg(<<"p","u","b","l","i","c">>, <<"P","U","B","L","I","C">>)>>] }

VpcConfigs ==
    {Doc("vpcs", q) : q \in SeqsUpTo(VpcSpecs, MaxSpecs)}

\* availability zones the engine offers an environment-agnostic stack
AgnosticAzs == 2

N_p == <<"p">>
N_r == <<"r">>
N_db == <<"d","b">>

RdsSpec(name, extra) ==
    extra @@ [name |-> name, db_name |-> N_db, username |-> N_db,
              engine |-> [type |-> <<"p","o","s","t","g","r","e","s">>, version |-> <<"v","e","r","_","1","6">>],
              instance_class |-> <<"t","3">>, instance_size |-> <<"m","i","c","r","o">>,
              vpc |-> N_main, security_group_name |-> N_db]

RdsSpecs ==
    { RdsSpec(N_p, [port |-> 5432]),
      RdsSpec(N_r, [multi_az |-> TRUE]),
      RdsSpec(N_r, [read_replica_of |-> N_p]),
      RdsSpec(N_r, [read_replica_of |-> N_r]),
      RdsSpec(N_p, [read_replica_of |-> N_x]),
      RdsSpec(N_r, [engine |-> [type |-> <<"P","o","s","t","g","r","e","s">>, version |-> <<"v","e","r","_","9">>]]),
      RdsSpec(N_r, [engine |-> [type |-> <<"M","y","S","Q","L">>, version |-> <<"v","e","r","_","8","_","0">>],
                    security_group_name |-> N_a]),
      RdsSpec(N_p, [engine |-> [type |-> <<"o","r","a","c","l","e">>, version |-> <<"v","e","r","_","1","9">>]]),
      RdsSpec(N_p, [instance_class |-> <<"z","9">>]),
      RdsSpec(N_r, [subnet_type |-> <<"b","o","g","u","s">>]),
      RdsSpec(N_r, [subnet_type |-> <<"p","u","b","l","i","c">>, availability_zones |-> <<N_az>>]),
      RdsSpec(N_p, [vpc |-> N_a, subnet_type |-> <<"p","r","i","v","a","t","e","_","i","s","o","l","a","t","e","d">>,
                    availability_zones |-> <<N_az, N_az2>>]) }

RdsConfigs ==
    {Doc("instances", q) : q \in SeqsUpTo(RdsSpecs, MaxSpecs)}

N_ab == <<"a","b">>
N_logs == <<"l","o","g","s">>

S3Specs ==
    { [name |-> N_a],
      [name |-> N_b, versioned |-> TRUE, public_access_block |-> [block_public_acls |-> FALSE]],
      [name |-> N_a, logging_target_bucket |-> N_b],
      [name |-> N_b, logging_target_bucket |-> N_a, public_access_block |-> [bool |-> TRUE]],
      [name |-> N_a, logging_target_bucket |-> N_x],
      [name |-> N_b, logging_target_bucket |-> N_x, removal_policy |-> <<"d","e","s","t","r","o","y">>],
      [name |-> N_a_b],
      [name |-> N_ab, logging_target_bucket |-> N_ab],
      [name |-> N_b, encryption |-> <<"r","o","t","1","3">>],
      [name |-> N_b, access_control |-> <<"p","u","b","l","i","c","_","r","e","a","d">>, public_access_block |-> [bool |-> FALSE]],
      [name |-> N_logs, lifecycle_rules |->
          <<[id |-> N_x, transitions |-> <<[storage_class |-> <<"g","l","a","c","i","e","r">>, transition_after_days |-> 30]>>],
            [enabled |-> FALSE]>>],
      [name |-> N_logs, lifecycle_rules |->
          <<[transitions |-> <<[storage_class |-> <<"t","a","p","e">>, transition_after_days |-> 30]>>]>>] }

S3Configs ==
    {Doc("buckets", q) : q \in SeqsUpTo(S3Specs, MaxSpecs)}

N_key == <<"/","k">>

EcrSpecs ==
    { [name |-> N_a],
      [name |-> N_b, image_tag_mutability |-> <<"i","m","m","u","t","a","b","l","e">>],
      [name |-> N_a, store_ssm |-> FALSE],
      [name |-> N_b, ssm_uri_param_name |-> N_key],
      [name |-> N_a, ssm_uri_param_name |-> N_key, ssm_arn_param_name |-> <<"/","a","c","m","e","/","d","e","v","/","e","c","r","/","b","/","a","r","n">>],
      [name |-> N_b, ssm_uri_param_name |-> N_key, ssm_arn_param_name |-> N_key],
      [name |-> N_a_b, repository_name |-> N_x],
      [name |-> N_ab, encryption |-> <<"k","m","s">>],
      [name |-> N_ab, encryption |-> <<"k","m","s">>, kms_key_arn |-> N_key],
      [name |-> N_b, image_tag_mutability |-> <<"f","r","o","z","e","n">>],
      [name |-> N_a, lifecycle_rules |-> <<[rule_priority |-> 1, max_image_count |-> 5],
                                            [tag_status |-> <<"t","a","g","g","e","d">>]>>],
      [name |-> N_b, lifecycle_rules |-> <<[tag_status |-> <<"s","i","g","n","e","d">>]>>],
      [name |-> N_a, repository_policy_statements |->
          <<[actions |-> <<<<"e","c","r",":","*">>>>, principals |-> <<[type |-> "any_aws"]>>],
            [effect |-> <<"d","e","n","y">>]>>],
      [name |-> N_b, repository_policy_statements |-> <<[principals |-> <<[type |-> "group"]>>]>>],
      [name |-> N_a, image_scan_on_push |-> FALSE, removal_policy |-> <<"d","e","s","t","r","o","y">>] }

EcrConfigs ==
    {Doc("repositories", q) : q \in SeqsUpTo(EcrSpecs, MaxSpecs)}

N_web == <<"w","e","b">>
N_api == <<"a","p","i">>
N_img == <<"i","m","g">>

Svc(name, extra) == extra @@ [name |-> name, image |-> N_img]
Lb(tg) == [tg_name |-> tg]
Scaling(metric, extra) == extra @@ [metric_type |-> metric, target_value |-> 50]

EcsServiceLists ==
    { <<>>,
      <<Svc(N_web, [load_balancer_integrations |-> <<Lb(N_a_b)>>])>>,
      <<Svc(N_web, [load_balancer_integrations |-> <<Lb(N_a_b)>>,
                    service_security_groups |-> <<N_a>>]),
        Svc(N_api, [load_balancer_integrations |-> <<Lb(N_a_b), Lb(N_c)>>,
                    service_security_groups |-> <<N_a, N_b>>])>>,
      <<Svc(N_web, [auto_scaling_target_tracking |->
                        Scaling(<<"a","l","b","_","r","e","q","u","e","s","t","_","c","o","u","n","t","_","p","e","r","_","t","a","r","g","e","t">>, [alb_target_group_arn_param |-> N_key])])>>,
      <<Svc(N_web, [auto_scaling_target_tracking |-> Scaling(<<"c","p","u">>, [min_capacity |-> 2])]),
        Svc(N_api, [auto_scaling_target_tracking |-> Scaling(<<"d","i","s","k">>, [max_capacity |-> 4])])>>,
      <<Svc(N_api, [auto_scaling_target_tracking |-> Scaling(<<"A","L","B","_","R","E","Q","U","E","S","T","_","C","O","U","N","T","_","P","E","R","_","T","A","R","G","E","T">>, [min_capacity |-> 1])])>>,
      <<Svc(N_web, [containers |-> <<[name |-> N_web, image |-> N_img,
                                      port_mappings |-> <<[container_port |-> 80]>>],
                                     [name |-> <<"W","E","B">>, image |-> N_img,
                                      log_config |-> [enabled |-> TRUE, retention_days |-> <<"o","n","e","_","w","e","e","k">>,
                                                      removal_policy |-> <<"r","e","t","a","i","n">>]]>>])>>,
      <<Svc(N_web, [log_config |-> [enabled |-> FALSE],
                    secrets |-> <<[env_key |-> <<"d","b">>, secret_name |-> N_db]>>,
                    port_mappings |-> <<[container_port |-> 80, protocol |-> <<"s","c","t","p">>]>>])>>,
      <<Svc(N_api, [network_mode |-> <<"m","e","s","h">>])>>,
      <<Svc(N_api, [service_subnet_type |-> <<"p","r","i","v","a","t","e","_","i","s","o","l","a","t","e","d">>, scheduling_strategy |-> <<"d","a","e","m","o","n">>]),
        Svc(<<"A","p","i">>, [task_cpu |-> 512])>> }

EcsClusterBases ==
    { [name |-> N_main, vpc |-> N_main],
      [name |-> N_main, vpc |-> N_main, security_groups |-> <<N_a>>],
      [name |-> N_b, vpc |-> N_main, asg_subnet_type |-> <<"p","r","i","v","a","t","e","_","i","s","o","l","a","t","e","d">>,
       availability_zones |-> <<N_az>>, security_groups |-> <<N_a, N_b>>,
       capacity_provider_type |-> <<"A","S","G">>, instance_type |-> <<"t","3",".","m","i","c","r","o">>, asg_ami_type |-> <<"A","R","M">>],
      [name |-> N_b, vpc |-> N_a, asg_subnet_type |-> <<"b","o","g","u","s">>],
      [name |-> <<"M","a","i","n">>, vpc |-> N_a, capacity_provider_type |-> <<"A","S","G">>, instance_type |-> <<"t","3",".","m","i","c","r","o">>,
       task_role |-> [inline_policies |-> <<[actions |-> <<<<"s","3",":","*">>>>], [effect |-> <<"m","a","y","b","e">>]>>]] }

\* every service list on the first cluster shape, every cluster shape with one
\* service list
EcsSpecs ==
    { [services |-> sl] @@ [name |-> N_main, vpc |-> N_main] : sl \in EcsServiceLists }
    \cup { [services |-> <<Svc(N_web, [load_balancer_integrations |-> <<Lb(N_a_b)>>])>>] @@ cb
           : cb \in EcsClusterBases }

EcsConfigs ==
    {Doc("clusters", q) : q \in SeqsUpTo(EcsSpecs, MaxSpecs)}

PipeConf(vpc, extra) ==
    extra @@ [vpc |-> vpc, artifact_bucket |-> N_logs, github_username |-> N_x, repo |-> N_x,
              branch |-> N_main, build_cache_prefix |-> N_x,
              ecs_service_name |-> N_web, ecs_cluster_name |-> N_main]

Stage(name, types) == [name |-> name, actions |-> [i \in 1..Len(types) |-> [type |-> types[i]]]]

PipeSpecs ==
    { [name |-> N_web, conf |-> PipeConf(N_main, [stages |-> <<>>])],
      [name |-> N_api, conf |-> PipeConf(N_main, [availability_zones |-> <<N_az>>])],
      [name |-> N_api, conf |-> PipeConf(N_a, [stages |->
          <<Stage(<<"S","o","u","r","c","e">>, <<<<"g","i","t","h","u","b","_","s","o","u","r","c","e">>>>),
            Stage(<<"B","u","i","l","d">>, <<<<"c","o","d","e","b","u","i","l","d">>, <<"l","i","n","t">>>>),
            Stage(<<"D","e","p","l","o","y">>, <<<<"e","c","s","_","d","e","p","l","o","y">>>>)>>])],
      [name |-> N_web, conf |-> PipeConf(N_a, [stages |-> <<Stage(<<"S","c","a","n">>, <<<<"s","c","a","n">>>>)>>])],
      [name |-> <<"W","e","b">>, conf |-> PipeConf(N_main, [stages |->
          <<[name |-> <<"S","o","u","r","c","e">>, actions |-> <<[type |-> <<"g","i","t","h","u","b","_","s","o","u","r","c","e">>, action_name |-> N_x]>>]>>])],
      [name |-> <<"A","p","i">>, conf |-> PipeConf(N_main, [codebuild_policy_statements |->
          <<[actions |-> <<<<"s","3",":","*">>>>], [effect |-> <<"d","e","n","y">>]>>])],
      [name |-> N_x, conf |-> PipeConf(N_main, [codebuild_policy_statements |-> <<[effect |-> <<"p","e","r","h","a","p","s">>]>>])],
      [name |-> N_a, conf |-> PipeConf(N_a, [stages |-> <<[name |-> <<"E","m","p","t","y">>]>>])],
      [name |-> N_b, conf |-> PipeConf(N_b, [stages |-> <<Stage(<<"B","u","i","l","d">>, <<<<"c","o","d","e","b","u","i","l","d">>>>)>>])],
      [name |-> N_c, conf |-> PipeConf(N_a, [availability_zones |-> <<N_az, N_az2>>])] }

\* config["pipelines"] is a mapping: its keys are distinct
PipeConfigs ==
    {Doc("pipelines", q) : q \in {s \in SeqsUpTo(PipeSpecs, MaxSpecs) :
                                     \A i, j \in 1..Len(s) : s[i].name = s[j].name => i = j}}

AppContexts == { <<>>, [vpc_cidr |-> N_cidr], [max_azs |-> 3], [max_azs |-> 0, vpc_cidr |-> <<>>] }
AppEnvirons == { <<>>, [VPC_CIDR |-> N_cidr], [MAX_AZS |-> <<"1">>],
                 [MAX_AZS |-> <<"t","w","o">>], [MAX_AZS |-> <<"3">>, VPC_CIDR |-> <<>>] }

AppConfigs ==
    { [context |-> c, environ |-> e] : c \in AppContexts, e \in AppEnvirons }

SgConfigs ==
    {Doc("security_groups", q) : q \in SeqsUpTo(SgSpecs, MaxSpecs)}
    \cup {[project_name |-> N_acme, env |-> N_dev]}

Units == {"vpc", "sg", "alb", "rds", "s3", "ecr", "ecs", "pipeline", "app"}

ConfigsOf(u) ==
    CASE u = "sg" -> SgConfigs
      [] u = "vpc" -> VpcConfigs
      [] u = "rds" -> RdsConfigs
      [] u = "app" -> AppConfigs
      [] u = "pipeline" -> PipeConfigs
      [] u = "ecs" -> EcsConfigs
      [] u = "s3" -> S3Configs
      [] u = "ecr" -> EcrConfigs
      [] u = "alb" -> AlbConfigs

\* the registry before the pass: empty (nothing deployed yet) or holding what
\* the network units of this project published
Published ==
    { Path(<<N_acme, N_dev, L_vpc, N_main>>),
      Path(<<N_acme, N_dev, N_main, L_subnet, L_public, Str(0)>>) } \cup
    { Path(<<N_acme, N_dev, L_sg, n>>) : n \in {N_a, N_b, N_x} }

RegistryChoices == {{}, Published}

-----------------------------------------------------------------------------
(* The pass.                                                               *)

At(phase, i) == [phase |-> phase, i |-> i]
NotBuilt == [prj_name |-> <<>>, env_name |-> <<>>, children |-> {}]

Init ==
    /\ unit \in Units
    /\ config \in ConfigsOf(unit) \cup (IF unit = "app" THEN {} ELSE FaultyFiles)
    /\ registry \in RegistryChoices
    /\ self = NotBuilt
    /\ out = <<>>
    /\ pc = At("init", 0)
    /\ status = "running"
    /\ error = NoError
    /\ assembly = <<>>

\* the handler's state before it runs
Now == [self |-> self, out |-> out, err |-> NoError, ret |-> None]

\* the declarations and registry reads among the events of a pass
Template(events) == SelectSeq(events, LAMBDA e : e.ev \in {"declare", "get"})

\* a construct tree that acts on the deployment as it is built: every
\* declaration is in the assembly at once, every put in the registry
Commit_eager(M, next) ==
    /\ self' = M.self
    /\ out' = M.out
    /\ IF Failed(M)
       THEN status' = "failed" /\ error' = M.err /\ pc' = pc
       ELSE /\ status' = (IF next.phase = "done" THEN "done" ELSE "running")
            /\ error' = error
            /\ pc' = next
    /\ assembly' = Template(M.out)
    /\ registry' = registry \cup
           {M.out[i].props.parameter_name :
                i \in {k \in 1..Len(M.out) : /\ M.out[k].ev = "declare"
                                              /\ M.out[k].type = "StringParameter"}}
    /\ UNCHANGED <<unit, config>>

\* the handler ran to its end (the walk moves on to `next`) or raised (the
\* constructor is left by the exception, and the program with it); a pass
\* that ran to its end is synthesized (app.synth()), which writes the
\* assembly the engine applies later
Commit(M, next) ==
    /\ self' = M.self
    /\ out' = M.out
    /\ IF Failed(M)
       THEN status' = "failed" /\ error' = M.err /\ pc' = pc /\ assembly' = assembly
       ELSE /\ status' = (IF next.phase = "done" THEN "done" ELSE "running")
            /\ error' = error
            /\ pc' = next
            /\ assembly' = (IF next.phase = "done" THEN Template(M.out) ELSE assembly)
    /\ UNCHANGED <<unit, config, registry>>

\* SecurityGroupStack.__init__ up to the first loop of _create_security_groups
SecurityGroupStack_init ==
    /\ unit = "sg" /\ status = "running" /\ pc.phase = "init"
    /\ LET M == Stack_init(Now, config)
           sg_configs == Get(config, "security_groups", <<>>)
       IN  IF Failed(M) THEN Commit(M, pc) ELSE
           IF sg_configs = <<>>
           THEN Commit(PrintLine(M, "WARNING", "create_security_groups", "NoSecurityGroups"),
                       At("done", 0))
           ELSE Commit(M, At("create", 1))

\* a single loop: each group is created and its rules are added at once
SecurityGroupStack_create_base_interleaved ==
    /\ unit = "sg" /\ status = "running" /\ pc.phase = "create"
    /\ LET sg_configs == config.security_groups
           M == Sg_create_base_security_group(Now, sg_configs[pc.i])
       IN  Commit(IF Failed(M) THEN M ELSE Sg_add_rules_to_security_group(M, sg_configs[pc.i]),
                  IF pc.i < Len(sg_configs) THEN At("create", pc.i + 1) ELSE At("done", 0))

\* first loop of _create_security_groups: one _create_base_security_group call
SecurityGroupStack_create_base ==
    /\ unit = "sg" /\ status = "running" /\ pc.phase = "create"
    /\ LET sg_configs == config.security_groups
       IN  Commit(Sg_create_base_security_group(Now, sg_configs[pc.i]),
                  IF pc.i < Len(sg_configs) THEN At("create", pc.i + 1) ELSE At("rules", 1))

\* second loop of _create_security_groups: one _add_rules_to_security_group call
SecurityGroupStack_add_rules ==
    /\ unit = "sg" /\ status = "running" /\ pc.phase = "rules"
    /\ LET sg_configs == config.security_groups
       IN  Commit(Sg_add_rules_to_security_group(Now, sg_configs[pc.i]),
                  IF pc.i < Len(sg_configs) THEN At("rules", pc.i + 1) ELSE At("done", 0))

\* ALBStack.__init__ up to the loop of _create_albs
ALBStack_init ==
    /\ unit = "alb" /\ status = "running" /\ pc.phase = "init"
    /\ LET M == Stack_init(Now, config)
       IN  IF Failed(M) THEN Commit(M, pc) ELSE
           IF Get(config, "albs", <<>>) = <<>>
           THEN Commit(PrintLine(M, "WARNING", "create_albs", "NoAlbs"), At("done", 0))
           ELSE Commit(M, At("albs", 1))

\* the loop of _create_albs: one _create_single_alb call
ALBStack_create_single_alb ==
    /\ unit = "alb" /\ status = "running" /\ pc.phase = "albs"
    /\ Commit(Alb_create_single_alb(Now, config.albs[pc.i]),
              IF pc.i < Len(config.albs) THEN At("albs", pc.i + 1) ELSE At("done", 0))


\* VpcStack.__init__ up to the loop of _create_vpcs
VpcStack_init ==
    /\ unit = "vpc" /\ status = "running" /\ pc.phase = "init"
    /\ LET M == Stack_init(Now, config)
       IN  IF Failed(M) THEN Commit(M, pc) ELSE
           IF Get(config, "vpcs", <<>>) = <<>>
           THEN Commit(Annotate(M, "warning", "create_vpcs", "NoVpcs"), At("done", 0))
           ELSE Commit(M, At("vpcs", 1))

\* the loop of _create_vpcs: one _create_single_vpc call
VpcStack_create_single_vpc ==
    /\ unit = "vpc" /\ status = "running" /\ pc.phase = "vpcs"
    /\ Commit(Vpc_create_single_vpc(Now, config.vpcs[pc.i], AgnosticAzs),
              IF pc.i < Len(config.vpcs) THEN At("vpcs", pc.i + 1) ELSE At("done", 0))


\* RDSStack.__init__ up to the loop of _create_database_instances
RDSStack_init ==
    /\ unit = "rds" /\ status = "running" /\ pc.phase = "init"
    /\ LET M == Stack_init(Now, config)
       IN  IF Failed(M) THEN Commit(M, pc) ELSE
           IF Get(config, "instances", <<>>) = <<>>
           THEN Commit(PrintLine(M, "WARNING", "create_database_instances", "NoInstances"),
                       At("done", 0))
           ELSE Commit(M, At("instances", 1))

\* the loop of _create_database_instances: one _create_single_db_instance call
RDSStack_create_single_db_instance ==
    /\ unit = "rds" /\ status = "running" /\ pc.phase = "instances"
    /\ Commit(Rds_create_single_db_instance(Now, config.instances[pc.i]),
              IF pc.i < Len(config.instances) THEN At("instances", pc.i + 1) ELSE At("done", 0))


\* S3BucketStack.__init__ up to the first loop of _create_buckets
S3BucketStack_init ==
    /\ unit = "s3" /\ status = "running" /\ pc.phase = "init"
    /\ LET M == Stack_init(Now, config)
       IN  IF Failed(M) THEN Commit(M, pc) ELSE
           IF Get(config, "buckets", <<>>) = <<>>
           THEN Commit(PrintLine(M, "WARNING", "create_buckets", "NoBuckets"), At("done", 0))
           ELSE Commit(M, At("buckets", 1))

\* first loop of _create_buckets: one _create_base_bucket call
S3BucketStack_create_base_bucket ==
    /\ unit = "s3" /\ status = "running" /\ pc.phase = "buckets"
    /\ Commit(S3_create_base_bucket(Now, config.buckets[pc.i]),
              IF pc.i < Len(config.buckets) THEN At("buckets", pc.i + 1) ELSE At("logging", 1))

\* second loop of _create_buckets: one _configure_bucket_logging call
S3BucketStack_configure_bucket_logging ==
    /\ unit = "s3" /\ status = "running" /\ pc.phase = "logging"
    /\ Commit(S3_configure_bucket_logging(Now, config.buckets[pc.i]),
              IF pc.i < Len(config.buckets) THEN At("logging", pc.i + 1) ELSE At("done", 0))

\* ECRStack.__init__ up to the loop of _create_repositories
ECRStack_init ==
    /\ unit = "ecr" /\ status = "running" /\ pc.phase = "init"
    /\ LET M == Stack_init(Now, config)
       IN  IF Failed(M) THEN Commit(M, pc) ELSE
           IF Get(config, "repositories", <<>>) = <<>>
           THEN Commit(PrintLine(M, "WARNING", "create_repositories", "NoRepositories"), At("done", 0))
           ELSE Commit(M, At("repositories", 1))

\* the loop of _create_repositories: one _create_single_repository call
ECRStack_create_single_repository ==
    /\ unit = "ecr" /\ status = "running" /\ pc.phase = "repositories"
    /\ Commit(Ecr_create_single_repository(Now, config.repositories[pc.i]),
              IF pc.i < Len(config.repositories) THEN At("repositories", pc.i + 1) ELSE At("done", 0))


\* ECSStack.__init__ up to the loop of _create_ecs_resources
ECSStack_init ==
    /\ unit = "ecs" /\ status = "running" /\ pc.phase = "init"
    /\ LET M == Stack_init(Now, config)
       IN  IF Failed(M) THEN Commit(M, pc) ELSE
           IF Get(config, "clusters", <<>>) = <<>>
           THEN Commit(PrintLine(M, "WARNING", "create_ecs_resources", "NoClusters"), At("done", 0))
           ELSE Commit(M, At("clusters", 1))

\* the loop of _create_ecs_resources: one _create_single_cluster_and_services call
ECSStack_create_single_cluster_and_services ==
    /\ unit = "ecs" /\ status = "running" /\ pc.phase = "clusters"
    /\ Commit(Ecs_create_single_cluster_and_services(Now, config.clusters[pc.i]),
              IF pc.i < Len(config.clusters) THEN At("clusters", pc.i + 1) ELSE At("done", 0))


\* CodePipelineStack.__init__ up to its loop over config["pipelines"]
CodePipelineStack_init ==
    /\ unit = "pipeline" /\ status = "running" /\ pc.phase = "init"
    /\ LET M == Stack_init(Now, config)
       IN  IF Failed(M) THEN Commit(M, pc) ELSE
           IF Get(config, "pipelines", <<>>) = <<>>
           THEN Commit(M, At("done", 0))
           ELSE Commit(M, At("pipelines", 1))

\* the loop of __init__: one _create_service_pipeline call
CodePipelineStack_create_service_pipeline ==
    /\ unit = "pipeline" /\ status = "running" /\ pc.phase = "pipelines"
    /\ Commit(Pipe_create_service_pipeline(Now, config.pipelines[pc.i].name, config.pipelines[pc.i].conf),
              IF pc.i < Len(config.pipelines) THEN At("pipelines", pc.i + 1) ELSE At("done", 0))


\* app.py lines 18-21: the App, cidr and max_azs
App_start ==
    /\ unit = "app" /\ status = "running" /\ pc.phase = "init"
    /\ LET M == App_max_azs([Now EXCEPT !.self = NewApp], config.context, config.environ)
       IN  Commit(M, [phase |-> "stack", i |-> 0, at |-> S_Vpc, max_azs |-> M.ret])

\* the constructor call of the stack named s, when the walk stands before it
App_stack(s, extra) ==
    /\ unit = "app" /\ status = "running" /\ pc.phase = "stack" /\ pc.at = s
    /\ Commit(App_construct(Now, s, extra),
              IF App_next(s) = <<"s","y","n","t","h">> THEN [pc EXCEPT !.phase = "synth"]
              ELSE [pc EXCEPT !.at = App_next(s)])

App_VpcStack ==
    App_stack(S_Vpc, [cidr |-> App_cidr(config.context, config.environ), max_azs |-> pc.max_azs])
App_SecurityGroupStack == App_stack(S_SecurityGroup, <<>>)
App_ECRStack == App_stack(S_ECR, [repo_names |-> <<"frontend", "backend">>])
App_RDSStack == App_stack(S_RDS, <<>>)
App_ALBStack == App_stack(S_Alb, [domain_name |-> "dev.yospace.ai"])
App_ECSStack == App_stack(S_ECS, <<>>)
App_IAMStack == App_stack(S_IAM, <<>>)
App_S3BucketStack == App_stack(S_S3, <<>>)
App_CodePipelineBackendStack == App_stack(S_Backend, [github_repo |-> "app-backend"])
App_CodePipelineFrontendStack == App_stack(S_Frontend, [github_repo |-> "app-frontend"])

\* app.synth()
App_synth ==
    /\ unit = "app" /\ status = "running" /\ pc.phase = "synth"
    /\ Commit(Emit(Now, [ev |-> "synth", stacks |-> self.children]), At("done", 0))


Next ==
    \/ SecurityGroupStack_init
    \/ SecurityGroupStack_create_base
    \/ SecurityGroupStack_add_rules
    \/ ALBStack_init
    \/ VpcStack_init
    \/ App_start
    \/ App_VpcStack
    \/ App_SecurityGroupStack
    \/ App_ECRStack
    \/ App_RDSStack
    \/ App_ALBStack
    \/ App_ECSStack
    \/ App_IAMStack
    \/ App_S3BucketStack
    \/ App_CodePipelineBackendStack
    \/ App_CodePipelineFrontendStack
    \/ App_synth
    \/ CodePipelineStack_init
    \/ CodePipelineStack_create_service_pipeline
    \/ ECSStack_init
    \/ ECSStack_create_single_cluster_and_services
    \/ S3BucketStack_init
    \/ S3BucketStack_create_base_bucket
    \/ S3BucketStack_configure_bucket_logging
    \/ ECRStack_init
    \/ ECRStack_create_single_repository
    \/ RDSStack_init
    \/ RDSStack_create_single_db_instance
    \/ VpcStack_create_single_vpc
    \/ ALBStack_create_single_alb

Spec == Init /\ [][Next]_vars

-----------------------------------------------------------------------------
(* Properties of reference resolution (C2, C3, C4).                        *)

ResolveEvents == Events("resolve")
SameName(i, j) == out[i].cache = out[j].cache /\ out[i].name = out[j].name

\* C2: reference resolution is local-first: no pass declares a registry get for
\* a key that the same pass has published earlier, i.e. for a resource it has
\* already built itself; a get is declared only for names the pass has not built.
C2_LocalFirst ==
    \A i \in GetEvents : \A j \in PutEvents : j < i => PutKey(j) # out[i].key

\* C3: within one pass of one stack each external name is resolved through the
\* registry at most once: no key is read by two get declarations of the pass.
C3_ResolvedOncePerPass ==
    \A i, j \in GetEvents : out[i].key = out[j].key => i = j

\* C4: within one pass, two local (cache-hit) resolutions of the same name
\* return the same built-resource instance.
C4_SameInstanceTwice ==
    \A i, j \in ResolveEvents :
        (SameName(i, j) /\ out[i].how = "cache" /\ out[j].how = "cache")
            => out[i].handle = out[j].handle

-----------------------------------------------------------------------------
(* Properties of error handling in the network stacks (C9, C10).           *)

PeerAlternatives == {"cidr", "source_sg", "prefix_list_id", "connection_peer_id", "all_ipv4", "all_ipv6"}
Peerless(rule) == DOMAIN rule \cap PeerAlternatives = {}

\* C9: a security-group ingress rule with neither cidr nor source_sg nor any
\* other peer alternative makes the pass fail: no pass over a configuration
\* holding such a rule ends successfully.
C9_PeerlessRuleFailsPass ==
    (unit = "sg" /\ status = "done")
        => \A s \in 1..Len(Get(config, "security_groups", <<>>)) :
               \A r \in 1..Len(Get(config.security_groups[s], "ingress", <<>>)) :
                   ~Peerless(config.security_groups[s].ingress[r])

SupportedProtocols == {<<"H","T","T","P">>, <<"H","T","T","P","S">>}

\* the target-group entries of the load balancer the pass is working on whose
\* protocol is outside the supported set
UnsupportedProtocolEntries ==
    IF unit = "alb" /\ pc.phase = "albs"
    THEN {t \in 1..Len(config.albs[pc.i].target_groups) :
             Has(config.albs[pc.i].target_groups[t], "protocol")
             /\ Upper(config.albs[pc.i].target_groups[t].protocol) \notin SupportedProtocols}
    ELSE {}

\* C10: when the pass stops on a target group whose protocol is outside the
\* supported set, the error is an UnsupportedEnumValue carrying the field name
\* "protocol", the offending value and the allowed set, and no target group is
\* declared or published for that entry.
C10_UnsupportedProtocolError ==
    \A t \in UnsupportedProtocolEntries :
        (status = "failed"
         /\ error.value = Upper(config.albs[pc.i].target_groups[t].protocol))
            => /\ error.type = "UnsupportedEnumValue"
               /\ error.field = "protocol"
               /\ error.allowed = SupportedProtocols
               /\ \A d \in Events("declare") :
                      out[d].id # config.albs[pc.i].name
                                  \o config.albs[pc.i].target_groups[t].name \o L_TG

-----------------------------------------------------------------------------
(* Properties of registry keys (C1).                                       *)

\* the segments of a path-like key: "/a/b" gives <<"a", "b">>
RECURSIVE Segments(_)
Segments(k) ==
    IF k = <<>> THEN <<>>
    ELSE LET rest == Tail(k)
             n == IF \E i \in 1..Len(rest) : rest[i] = "/"
                  THEN (CHOOSE i \in 1..Len(rest) : rest[i] = "/" /\ \A j \in 1..(i - 1) : rest[j] # "/") - 1
                  ELSE Len(rest)
         IN  <<SubSeq(rest, 1, n)>> \o Segments(SubSeq(rest, n + 1, Len(rest)))

\* every key the pass has declared a put or a get for
DeclaredKeys == {PutKey(i) : i \in PutEvents} \cup {out[i].key : i \in GetEvents}

\* the categories and, per category, the documented sub-paths
Categories == {<<"v","p","c">>, <<"s","g">>, <<"l","o","a","d","b","a","l","a","n","c","e","r">>, <<"t","a","r","g","e","t","g","r","o","u","p">>, <<"r","d","s">>, <<"e","c","r">>, <<"s","3">>}
SubPaths(category) ==
    CASE category = <<"r","d","s">> -> {<<<<"a","r","n">>>>, <<<<"e","n","d","p","o","i","n","t">>>>, <<<<"e","n","d","p","o","i","n","t">>, <<"p","o","r","t">>>>, <<<<"s","e","c","r","e","t">>>>}
      [] category = <<"e","c","r">> -> {<<<<"u","r","i">>>>, <<<<"a","r","n">>>>}
      [] category = <<"s","3">> -> {<<<<"n","a","m","e">>>>}
      [] OTHER -> {<<>>}

\* /{project}/{env}/{category}/{name}[/{sub-path}]
CategoryShape(s) ==
    /\ Len(s) >= 4
    /\ s[1] = config.project_name /\ s[2] = config.env
    /\ s[3] \in Categories
    /\ s[4] # <<>>
    /\ SubSeq(s, 5, Len(s)) \in SubPaths(s[3])

\* the shape the claim gives subnet keys: category "subnet", then the name
SubnetCategoryShape(s) ==
    /\ Len(s) >= 4
    /\ s[1] = config.project_name /\ s[2] = config.env
    /\ s[3] = <<"s","u","b","n","e","t">> /\ s[4] # <<>>

\* /{project}/{env}/{vpc name}/subnet/{group, lower case}/{index}
SubnetShape(s) ==
    /\ Len(s) = 6
    /\ s[1] = config.project_name /\ s[2] = config.env
    /\ s[3] # <<>> /\ s[4] = <<"s","u","b","n","e","t">>
    /\ s[5] # <<>> /\ s[5] = Lower(s[5])
    /\ \E i \in 0..9 : s[6] = Str(i)

\* the keys a configuration states verbatim: the ECR uri/arn parameter names
\* and the ECS auto-scaling target-group parameter
VerbatimKeys ==
    IF unit = "ecr"
    THEN UNION {{Get(config.repositories[i], "ssm_uri_param_name", <<>>),
                 Get(config.repositories[i], "ssm_arn_param_name", <<>>)}
                : i \in 1..Len(Get(config, "repositories", <<>>))}
    ELSE IF unit = "ecs"
    THEN UNION {{Get(Get(config.clusters[i].services[j], "auto_scaling_target_tracking", <<>>),
                     "alb_target_group_arn_param", <<>>)
                 : j \in 1..Len(Get(config.clusters[i], "services", <<>>))}
                : i \in 1..Len(Get(config, "clusters", <<>>))}
    ELSE {}

-----------------------------------------------------------------------------
(* Properties of the registry operations (C5, C6, C7).                     *)

\* C5: in any pass every registry key is put at most once: no two put
\* declarations of the pass carry the same key.
C5_KeyPutAtMostOnce ==
    \A i, j \in PutEvents : PutKey(i) = PutKey(j) => i = j

\* a load-balancer pass over two load balancers with uniquely named target
\* groups has completed and published each of them
C5_Witness ==
    /\ unit = "alb" /\ status = "done"
    /\ Len(config.albs) = 2 /\ config.albs[1].name # config.albs[2].name
    /\ Cardinality(PutEvents) >= 4

\* C6: a second put of a key the pass has already put, with the same or with
\* another value, is rejected: it raises, declares nothing (never two
\* declarations for one key) and leaves the first declaration as it was; and
\* a pass that has stopped on a parameter holds one declaration per key.
C6_SecondPutRejected ==
    /\ \A i \in PutEvents :
           \A v \in {out[i].props.string_value, Lit(<<"o","t","h","e","r">>)} :
               LET R == put_ssm_parameter(Now, PutKey(i), v)
               IN  Failed(R) /\ R.out = out /\ R.self = self
    /\ (status = "failed" /\ error.site = "StringParameter")
           => /\ error.cause = "DuplicateConstructId"
              /\ Cardinality({PutKey(i) : i \in PutEvents}) = Cardinality(PutEvents)

\* an ECR pass has stopped on the second put of a key it had already put
C6_Witness ==
    /\ unit = "ecr" /\ status = "failed"
    /\ error.site = "StringParameter"
    /\ \E i \in PutEvents :
           PutKey(i) \in {Get(config.repositories[pc.i], "ssm_uri_param_name", <<>>),
                          Get(config.repositories[pc.i], "ssm_arn_param_name", <<>>)}

\* the reasons a pass stops for: a malformed configuration or a construct id
\* used twice
StructuralCauses ==
    {"DuplicateConstructId", "NoSuchMember", "UnsupportedSubnetType", "PrimaryNotFound",
     "KmsWithoutKey", "UnsupportedPrincipalType", "ImportWithoutArn", "UnsupportedActionType",
     "ForwardWithoutRef", "UnsupportedEngineType", "UnsupportedEngineVersion", "MissingArnParam",
     "InvalidLiteral", "image"}

\* what load_yaml stops a pass for
ConfigCauses == {"NotFound", "NotWellFormed", "InvalidByte"}

ProbeKeys == Published \cup {<<"/","a","c","m","e","/","d","e","v","/","v","p","c","/","n","o","w","h","e","r","e">>} \cup {out[i].key : i \in GetEvents}

\* C7: a get on a key that is absent from the registry never fails the pass: the
\* get returns normally and declares a deferred read, and whenever a pass
\* stops, it stops for a reason of its document (a configuration or a
\* structural error), never for a key that is missing.
C7_AbsentKeyNeverFails ==
    /\ \A k \in ProbeKeys \ registry :
           LET R == get_ssm_parameter(Now, k)
           IN  ~Failed(R) /\ R.out = Append(out, [ev |-> "get", key |-> k])
    /\ status = "failed" => error.cause \in StructuralCauses \cup ConfigCauses

\* with nothing in the registry, a load-balancer pass that declared reads of
\* the VPC, subnet and security-group keys has completed
C7_Witness ==
    /\ registry = {} /\ unit = "alb" /\ status = "done"
    /\ Cardinality(GetEvents) >= 3

-----------------------------------------------------------------------------
(* Properties of the orchestrator (C8).                                    *)

StackEvents == {i \in Events("declare") : out[i].type = "Stack"}

\* the category of a stack in the order network, security, load balancing,
\* storage, compute, delivery; 0 for a stack of none of them
CategoryRank(stack) ==
    CASE stack = S_Vpc -> 1
      [] stack = S_SecurityGroup -> 2
      [] stack = S_Alb -> 3
      [] stack \in {S_RDS, S_S3, S_ECR} -> 4
      [] stack = S_ECS -> 5
      [] stack \in {S_Backend, S_Frontend} -> 6
      [] OTHER -> 0

\* C8 as stated: the builders run in the order VPC, security groups, load
\* balancers, storage, compute, delivery: no stack of a later category is
\* built before a stack of an earlier one.
C8_CategoryOrder ==
    \A i, j \in StackEvents :
        (i < j /\ CategoryRank(out[i].id) # 0 /\ CategoryRank(out[j].id) # 0)
            => CategoryRank(out[i].id) <= CategoryRank(out[j].id)

AppOrder ==
    <<<<"V","p","c","S","t","a","c","k">>, <<"S","e","c","u","r","i","t","y","G","r","o","u","p","S","t","a","c","k">>, <<"E","C","R","S","t","a","c","k">>, <<"R","D","S","S","t","a","c","k">>, <<"A","l","b","S","t","a","c","k">>,
      <<"E","C","S","S","t","a","c","k">>, <<"I","A","M","S","t","a","c","k">>, <<"S","3","B","u","c","k","e","t","S","t","a","c","k">>, <<"C","o","d","e","P","i","p","e","l","i","n","e","B","a","c","k","e","n","d","S","t","a","c","k">>,
      <<"C","o","d","e","P","i","p","e","l","i","n","e","F","r","o","n","t","e","n","d","S","t","a","c","k">>>>

\* C8 amended: the orchestrator builds the stacks in the fixed order VPC,
\* security groups, ECR, RDS, load balancer, ECS, IAM, S3, backend pipeline,
\* frontend pipeline, whatever its inputs; every stack is built after the
\* stacks whose outputs it is handed, and synthesis follows the last stack.
C8_FixedAppOrder ==
    unit = "app" =>
        /\ Cardinality(StackEvents) <= Len(AppOrder)
        /\ \A i \in StackEvents :
               /\ out[i].id = AppOrder[Cardinality({j \in StackEvents : j <= i})]
               /\ \A u \in out[i].props.uses : \E j \in StackEvents : j < i /\ out[j].id = u
        /\ \A i \in Events("synth") : out[i].stacks = {AppOrder[k] : k \in 1..Len(AppOrder)}
        /\ status = "failed" => StackEvents = {}

\* the orchestrator has built all ten stacks and synthesized
C8_Witness ==
    /\ unit = "app" /\ status = "done"
    /\ Cardinality(StackEvents) = 10
    /\ Events("synth") # {}

-----------------------------------------------------------------------------
(* Properties of enumerated fields and of error reporting (C11, C12).      *)

\* the elements of a sequence
Range(s) == {s[i] : i \in 1..Len(s)}

AmiTypes == {L_AL2, <<"A","L","2","_","A","R","M","6","4">>}
MetricTypes == {L_CPU, L_MEMORY, L_ALB_REQUEST_COUNT_PER_TARGET}

\* the values the document gives to asg_ami_type, metric_type, the action type
\* and the subnet type that are no known member
UnknownEnumValues ==
    CASE unit = "ecs" ->
             ({Get(c, "asg_ami_type", L_AL2) : c \in {c \in Range(config.clusters) :
                                                        Get(c, "capacity_provider_type", <<>>) = L_ASG}} \ AmiTypes)
             \cup ({Upper(s.auto_scaling_target_tracking.metric_type) :
                       s \in {s \in UNION {Range(Get(c, "services", <<>>)) : c \in Range(config.clusters)} :
                                 Has(s, "auto_scaling_target_tracking")}} \ MetricTypes)
      [] unit = "pipeline" ->
             {a.type : a \in UNION {Range(Get(st, "actions", <<>>)) :
                                       st \in UNION {Range(Get(p.conf, "stages", <<>>)) :
                                                        p \in Range(config.pipelines)}}} \ ActionTypes
      [] unit = "vpc" ->
             {Upper(sn.type) : sn \in UNION {Range(Get(v, "subnets", <<>>)) : v \in Range(config.vpcs)}}
                 \ SubnetType
      [] OTHER -> {}

\* the pass has failed: it raised, or it left an error annotation on the stack
PassRejected ==
    status = "failed" \/ \E i \in Events("annotation") : out[i].level = "error"

\* C11: a value of asg_ami_type, metric_type, the pipeline action type or the
\* VPC subnet type that is no known member fails the pass: no pass over a
\* document holding such a value ends successfully.
C11_UnknownEnumFailsPass ==
    (status = "done" /\ UnknownEnumValues # {}) => PassRejected

\* a repository spec with a structural error: KMS encryption without the
\* required kms_key_arn, or an image_tag_mutability that is no known member
FaultyRepository(r) ==
    \/ Upper(Get(r, "encryption", L_AES_256)) = L_KMS /\ ~Has(r, "kms_key_arn")
    \/ Upper(Get(r, "image_tag_mutability", L_MUTABLE)) \notin TagMutability

FaultyRepositories ==
    IF unit = "ecr"
    THEN {i \in 1..Len(Get(config, "repositories", <<>>)) : FaultyRepository(config.repositories[i])}
    ELSE {}

\* how many errors a pass has reported: the exception it stopped on, and the
\* error annotations and ERROR lines it left before
ReportedErrors ==
    (IF status = "failed" THEN 1 ELSE 0)
    + Cardinality({i \in Events("annotation") : out[i].level = "error"})
    + Cardinality({i \in Events("print") : out[i].level = "ERROR"})

\* C12: a failing pass reports every structural error of its document, not
\* only the first: a failed ECR pass reports at least as many errors as the
\* document has faulty repositories.
C12_AllErrorsReported ==
    (unit = "ecr" /\ status = "failed") => ReportedErrors >= Cardinality(FaultyRepositories)

-----------------------------------------------------------------------------
(* Defaults of optional fields (C13).                                      *)

Declared(type) == {i \in Events("declare") : out[i].type = type}

\* the position among the declarations of its type: the repository, bucket or
\* group of the k-th spec is the k-th one declared
Rank(i) == Cardinality({j \in Declared(out[i].type) : j <= i})

\* the removal policies the document states anywhere, as enum member names
StatedRemovalPolicies ==
    CASE unit = "ecr" -> {Upper(r.removal_policy) : r \in {r \in Range(config.repositories) : "removal_policy" \in DOMAIN r}}
      [] unit = "s3" -> {Upper(b.removal_policy) : b \in {b \in Range(config.buckets) : "removal_policy" \in DOMAIN b}}
      [] unit = "ecs" ->
             {Upper(c.log_config.removal_policy) :
                 c \in {c \in UNION {Range(IF "containers" \in DOMAIN s THEN s.containers ELSE <<s>>) :
                                        s \in UNION {Range(IF "services" \in DOMAIN cl THEN cl.services ELSE <<>>) :
                                                        cl \in Range(config.clusters)}} :
                           "log_config" \in DOMAIN c /\ "removal_policy" \in DOMAIN c.log_config}}
      [] OTHER -> {}

\* a security group is declared with the allow_all_outbound of its spec, true
\* when the spec omits it
SgOutboundDefault ==
    unit = "sg" =>
        \A i \in Declared("SecurityGroup") :
            LET s == config.security_groups[Rank(i)]
            IN  out[i].props.allow_all_outbound
                    = IF "allow_all_outbound" \in DOMAIN s THEN s.allow_all_outbound ELSE TRUE

\* a repository is declared with the image_scan_on_push of its spec, true when
\* the spec omits it
EcrScanDefault ==
    unit = "ecr" =>
        \A i \in Declared("Repository") :
            LET r == config.repositories[Rank(i)]
            IN  out[i].props.image_scan_on_push
                    = IF "image_scan_on_push" \in DOMAIN r THEN r.image_scan_on_push ELSE TRUE

\* C13 as stated: an omitted allow_all_outbound is declared true, an omitted
\* image_scan_on_push true, and every declaration with a removal policy
\* carries RETAIN unless the document states another one.
C13_DocumentedDefaults ==
    /\ SgOutboundDefault
    /\ EcrScanDefault
    /\ \A i \in Events("declare") :
           "removal_policy" \in DOMAIN out[i].props
               => out[i].props.removal_policy \in {L_RETAIN} \cup StatedRemovalPolicies

\* C13 amended: as stated for allow_all_outbound and image_scan_on_push; an
\* ECR repository or an S3 bucket is declared with the removal policy of its
\* spec, RETAIN when the spec omits it; an ECS container log group is declared
\* with DESTROY unless the document states another removal policy.
C13_DefaultsPerCategory ==
    /\ SgOutboundDefault
    /\ EcrScanDefault
    /\ unit = "ecr" =>
           \A i \in Declared("Repository") :
               LET r == config.repositories[Rank(i)]
               IN  out[i].props.removal_policy
                       = IF "removal_policy" \in DOMAIN r THEN Upper(r.removal_policy) ELSE L_RETAIN
    /\ unit = "s3" =>
           \A i \in Declared("Bucket") :
               LET b == config.buckets[Rank(i)]
               IN  out[i].props.removal_policy
                       = IF "removal_policy" \in DOMAIN b THEN Upper(b.removal_policy) ELSE L_RETAIN
    /\ unit = "ecs" =>
           \A i \in Declared("LogGroup") :
               out[i].props.removal_policy \in {L_DESTROY} \cup StatedRemovalPolicies

\* a security-group pass has declared one group with the default and one with
\* allow_all_outbound stated false
C13_Witness ==
    /\ unit = "sg" /\ status = "done"
    /\ \E i, j \in Declared("SecurityGroup") :
           /\ "allow_all_outbound" \notin DOMAIN config.security_groups[Rank(i)]
           /\ out[i].props.allow_all_outbound
           /\ "allow_all_outbound" \in DOMAIN config.security_groups[Rank(j)]
           /\ ~out[j].props.allow_all_outbound

-----------------------------------------------------------------------------
(* Repeated synthesis (C14).                                               *)

\* app.py run again over the same document: the first pass's outcome is
\* noted in the trace, the construct tree is built anew, and the registry
\* may have been filled by a deployment in between
Resynthesize ==
    /\ status \in {"done", "failed"}
    /\ Events("resynth") = {}
    /\ out' = Append(out, [ev |-> "resynth", status |-> status, error |-> error,
                           registry |-> registry])
    /\ registry' \in RegistryChoices
    /\ self' = NotBuilt
    /\ pc' = At("init", 0)
    /\ status' = "running"
    /\ error' = NoError
    /\ assembly' = <<>>
    /\ UNCHANGED <<unit, config>>

NextTwice == Next \/ Resynthesize

SpecTwice == Init /\ [][NextTwice]_vars

\* the events of the first pass and of the second pass so far
FirstPass == SubSeq(out, 1, (CHOOSE k \in Events("resynth") : TRUE) - 1)
SecondPass == SubSeq(out, (CHOOSE k \in Events("resynth") : TRUE) + 1, Len(out))

-----------------------------------------------------------------------------
(* Logical identifiers (C15).                                              *)

\* the constructs that stand for a resource spec of the document
BuiltTypes ==
    {"Vpc", "SecurityGroup", "LoadBalancer", "DatabaseInstance", "Bucket",
     "Repository", "Cluster"}

\* t in s, of Python strings
Contains(s, t) ==
    \E k \in 0..(Len(s) - Len(t)) : SubSeq(s, k + 1, k + Len(t)) = t

\* the repository names of the document are pairwise distinct
DistinctRepositoryNames ==
    \A i, j \in DOMAIN config.repositories :
        config.repositories[i].name = config.repositories[j].name => i = j

\* C15: every resource is declared under a logical identifier derived from
\* project, environment, category and resource name: the identifier carries
\* the project and the environment, and resources of distinct names never
\* meet in one identifier.
C15_IdentifierFromAllFour ==
    /\ \A i \in Events("declare") :
           out[i].type \in BuiltTypes =>
               /\ Contains(out[i].id, config.project_name)
               /\ Contains(out[i].id, config.env)
    /\ (unit = "ecr" /\ status = "failed" /\ error.cause = "DuplicateConstructId"
            /\ error.site = "Repository")
           => ~DistinctRepositoryNames

-----------------------------------------------------------------------------
(* The configuration loader (C16, C17).                                    *)

\* the pass is past self.config = load_yaml(config_path)
Loaded == unit # "app" /\ self # NotBuilt

\* the pass stopped in load_yaml
LoadFailed == unit # "app" /\ status = "failed" /\ error.site = "load_yaml"

\* C16: load_yaml returns the parsed document of an existing well-formed
\* file, as written (no key added, none changed); it fails with a not-found
\* error when the path does not exist, and with a parse error that wraps the
\* underlying failure when the content is not well-formed; in neither
\* failure is a document returned.
C16_LoadContract ==
    /\ config \notin FaultyFiles =>
           /\ ~LoadFailed
           /\ Loaded => self.config = config
    /\ (config = NoFile /\ status # "running") =>
           /\ LoadFailed /\ ~Loaded
           /\ error.type = "FileNotFoundError"
    /\ (config \in {BadYaml, BadBytes} /\ status # "running") =>
           /\ LoadFailed /\ ~Loaded
           /\ error.type = "ValueError" /\ error.cause = "NotWellFormed"

\* the events of a pass that touch the engine or the registry
Declarations == Events("declare") \cup Events("get")

\* C17: a configuration error is raised before any resource declaration,
\* registry put or registry get of the pass: a pass that ends in a
\* configuration error has declared nothing.
C17_ConfigErrorBeforeDeclarations ==
    (status = "failed" /\ error.cause \in ConfigCauses) =>
        /\ Declarations = {}
        /\ out = <<>>
        /\ self = NotBuilt

\* a pass has stopped on a configuration document that is missing
C17_Witness ==
    /\ config = NoFile /\ status = "failed"
    /\ error.cause = "NotFound"

-----------------------------------------------------------------------------
(* Aborted passes (C18).                                                   *)

\* C18: a pass that aborts on an error leaves no partial side effect: no
\* step of a pass changes the registry, and of a pass that failed, at
\* whatever point of its walk, no declaration is in the assembly the engine
\* applies.
C18_AbortLeavesNothing ==
    /\ [][registry' = registry]_vars
    /\ [](status = "failed" => assembly = <<>>)

\* an RDS pass has failed after it declared a secret and a parameter group
C18_Witness ==
    /\ unit = "rds" /\ status = "failed"
    /\ \E i, j \in Events("declare") :
           out[i].type = "Secret" /\ out[j].type = "ParameterGroup"
    /\ assembly = <<>>

-----------------------------------------------------------------------------
(* Order of the specs of one category (C19).                               *)

\* the names of the target groups the document defines, under any balancer
DocumentTargetGroups ==
    UNION { {config.albs[a].target_groups[g].name : g \in DOMAIN config.albs[a].target_groups} :
                a \in DOMAIN Get(config, "albs", <<>>) }

\* the names of the database instances the document defines
DocumentInstances ==
    {config.instances[j].name : j \in DOMAIN Get(config, "instances", <<>>)}

\* the names of the security groups the document defines
DocumentSecurityGroups ==
    {config.security_groups[j].name : j \in DOMAIN Get(config, "security_groups", <<>>)}

\* C19: what building a spec yields never depends on whether another spec of
\* its category stands before or after it: a read replica whose primary is in
\* the document is built wherever the primary stands, and a forward to a
\* target group of the document, or a rule naming a security group of the
\* document, is never answered from the registry.
C19_OrderIndependent ==
    /\ unit = "sg" =>
           \A i \in Events("resolve") :
               (out[i].cache = "security_groups" /\ out[i].how # "cache")
                   => out[i].name \notin DocumentSecurityGroups
    /\ (unit = "rds" /\ status = "failed" /\ error.cause = "PrimaryNotFound")
           => config.instances[pc.i].read_replica_of \notin DocumentInstances
    /\ unit = "alb" =>
           \A i \in Events("resolve") :
               (out[i].cache = "target_groups" /\ out[i].how = "registry")
                   => out[i].name \notin DocumentTargetGroups

-----------------------------------------------------------------------------
(* What a successful pass leaves (C20).                                    *)

\* the constructs a unit builds from the resource specs of its document
SpecTypes ==
    CASE unit = "vpc" -> {"Vpc"}
      [] unit = "sg" -> {"SecurityGroup"}
      [] unit = "alb" -> {"LoadBalancer", "TargetGroup"}
      [] unit = "rds" -> {"DatabaseInstance", "DatabaseInstanceReadReplica"}
      [] unit = "s3" -> {"Bucket"}
      [] unit = "ecr" -> {"Repository"}
      [] unit = "ecs" -> {"Cluster", "Ec2Service", "FargateService"}
      [] OTHER -> {}

\* the in-pass caches of a stack
Caches ==
    {"vpcs", "security_groups", "target_groups", "buckets", "db_secrets",
     "repositories", "ecs_clusters"}

\* the construct `id` is held in a cache of the stack
Cached(id) ==
    \E c \in Caches : \E n \in DOMAIN self[c] : self[c][n].id = id

\* an attribute of the construct `id` has been put into the registry
PutFor(id) ==
    \E j \in PutEvents :
        out[j].props.string_value.tok = "attr" /\ out[j].props.string_value.of = id

\* C20: after a successful pass every resource built from a spec is held in
\* the in-pass cache and an output of it has been put into the registry.
C20_BuiltCachedAndPublished ==
    (status = "done" /\ unit # "app") =>
        \A i \in Events("declare") :
            out[i].type \in SpecTypes => Cached(out[i].id) /\ PutFor(out[i].id)

-----------------------------------------------------------------------------
(* Indexed registry reads (C21, C22).                                      *)

\* the largest count get_ssm_subnet_ids is asked for below
MaxCount == 3

\* base paths get_ssm_subnet_ids is asked for below
ProbeBases ==
    {<<"/","a","c","m","e","/","d","e","v","/","m","a","i","n","/","s","u","b","n","e","t","/","p","u","b","l","i","c">>, <<"/","a","c","m","e","/","d","e","v","/","a","/","s","u","b","n","e","t","/","p","r","i","v","a","t","e">>}

\* the reads of base/0 ... base/(count-1), in this order
IndexedGets(base, count) ==
    [i \in 1..count |-> [ev |-> "get", key |-> base \o <<"/">> \o Str(i - 1)]]

\* C21: get_ssm_subnet_ids(base, count) declares exactly count deferred reads,
\* of base/0 ... base/(count-1) in increasing order, and nothing else; it
\* returns the tokens of these reads, and with count = 0 it declares no read
\* and returns the empty list.
C21_IndexedReads ==
    \A base \in ProbeBases : \A count \in 0..MaxCount :
        LET R == get_ssm_subnet_ids(Now, base, count)
        IN  /\ ~Failed(R)
            /\ R.out = out \o IndexedGets(base, count)
            /\ R.self = self
            /\ Len(SubnetIdTokens(base, count)) = count
            /\ \A i \in 1..count :
                   SubnetIdTokens(base, count)[i] = SsmToken(IndexedGets(base, count)[i].key)

\* a load-balancer pass over two availability zones has declared the reads of
\* the public subnets 0 and 1, one after the other
C21_Witness ==
    /\ unit = "alb" /\ status = "done"
    /\ \E i \in GetEvents :
           /\ i + 1 \in GetEvents
           /\ out[i].key = <<"/","a","c","m","e","/","d","e","v","/","m","a","i","n","/","s","u","b","n","e","t","/","p","u","b","l","i","c","/","0">>
           /\ out[i + 1].key = <<"/","a","c","m","e","/","d","e","v","/","m","a","i","n","/","s","u","b","n","e","t","/","p","u","b","l","i","c","/","1">>

\* key is an indexed subnet key .../{vpc}/subnet/{group}/{i}
IsSubnetKey(k) == Len(Segments(k)) = 6 /\ Segments(k)[4] = L_subnet

\* the base path of an indexed key: the key without its last segment
BaseOf(k) == SubSeq(k, 1, Len(k) - Len(Segments(k)[Len(Segments(k))]) - 1)

\* the reads of a pass that ask for an index the producer of the base path
\* has not published, while it has published others
ReadsBeyondPublished ==
    {i \in GetEvents :
        /\ IsSubnetKey(out[i].key)
        /\ out[i].key \notin registry
        /\ \E p \in registry : IsSubnetKey(p) /\ BaseOf(p) = BaseOf(out[i].key)}

\* C22: a consumer that asks for more indexed entries than the producer
\* published under the base key gets an InsufficientCount failure, not the
\* handles: no pass that declared such a read ends otherwise.
C22_InsufficientCount ==
    (ReadsBeyondPublished # {} /\ status # "running") =>
        status = "failed" /\ error.cause = "InsufficientCount"

-----------------------------------------------------------------------------
(* Subnet keys across stacks (C23).                                        *)

\* the base paths under which the ALB, ECS, RDS and pipeline stacks ask for
\* the subnets of type `type` (as the consumer's document spells it) in VPC
\* `vpc`
ConsumerBases(vpc, type) ==
    {Ecs_ssm_subnet_base_path(self, vpc, type), Rds_ssm_subnet_base_path(self, vpc, type)}
    \cup (IF Upper(type) = Upper(L_public)
          THEN {Alb_public_subnet_path_prefix(self, vpc), Pipe_public_subnet_path(self, vpc)}
          ELSE {})

\* the subnet keys the VPC pass has put
SubnetPuts == {PutKey(i) : i \in {j \in PutEvents : IsSubnetKey(PutKey(j))}}

\* C23: for every VPC spec and every subnet group it declares, the base key
\* under which the VPC stack publishes the subnets of the group's type is the
\* base key the consumers compute for that type, whatever the group is
\* named: the consumers' first key is among the keys put, and every key put
\* is under a base a consumer computes.
C23_SubnetKeysAgree ==
    (unit = "vpc" /\ status = "done") =>
        /\ \A v \in DOMAIN Get(config, "vpcs", <<>>) :
             \A s \in DOMAIN Get(config.vpcs[v], "subnets", <<>>) :
               LET type == config.vpcs[v].subnets[s].type
               IN  Upper(type) \in SubnetType =>
                       \A base \in ConsumerBases(config.vpcs[v].name, type) :
                           base \o <<"/">> \o Str(0) \in SubnetPuts
        /\ \A k \in SubnetPuts :
               \E t \in SubnetType : BaseOf(k) \in ConsumerBases(Segments(k)[3], t)

-----------------------------------------------------------------------------
(* Imported VPC handles (C24).                                             *)

\* the request _create_single_db_instance makes of _get_vpc for a spec
RdsVpcRequest(db_conf) ==
    [vpc_key |-> db_conf.vpc,
     subnet_type |-> Upper(Get(db_conf, "subnet_type", L_PRIVATE_WITH_EGRESS)),
     azs |-> IF Get(db_conf, "availability_zones", <<>>) = <<>> /\ Get(db_conf, "multi_az", FALSE)
             THEN <<<<"_">>, <<"_">>>>
             ELSE Get(db_conf, "availability_zones", <<>>)]

\* the request _create_single_cluster_and_services makes of _get_vpc
EcsVpcRequest(cluster_conf) ==
    [vpc_key |-> cluster_conf.vpc,
     subnet_type |-> Upper(Get(cluster_conf, "asg_subnet_type", L_PUBLIC)),
     azs |-> Get(cluster_conf, "availability_zones", <<>>)]

\* the import behind the handle R returns was declared for the subnet type
\* and the zones of the request
CarriesRequest(R, req) ==
    \E i \in 1..Len(R.out) :
        /\ R.out[i].ev = "declare" /\ R.out[i].type = "VpcImport"
        /\ R.out[i].id = R.ret.id
        /\ R.out[i].props.subnet_type = req.subnet_type
        /\ R.out[i].props.availability_zones = req.azs

\* C24: in the ECS and RDS stacks the VPC handle _get_vpc returns for the
\* request of the spec the pass is about to build carries the subnet ids of
\* the requested subnet type and zones, whatever earlier specs of the pass
\* requested for the same vpc_key.
C24_VpcHandleMatchesRequest ==
    /\ (unit = "rds" /\ status = "running" /\ pc.phase = "instances") =>
           LET req == RdsVpcRequest(config.instances[pc.i])
               R == Rds_get_vpc(Now, req.vpc_key, req.azs, req.subnet_type)
           IN  ~Failed(R) => CarriesRequest(R, req)
    /\ (unit = "ecs" /\ status = "running" /\ pc.phase = "clusters") =>
           LET req == EcsVpcRequest(config.clusters[pc.i])
               R == Ecs_get_vpc(Now, req.vpc_key, req.subnet_type, req.azs)
           IN  ~Failed(R) => CarriesRequest(R, req)

-----------------------------------------------------------------------------
(* The two phases of the security-group stack (C25).                       *)

\* the events in which a rule is added or a peer group is resolved
RuleEvents ==
    Events("rule") \cup {i \in Events("resolve") : out[i].cache = "security_groups"}

\* the events in which a security group of the document is created or put
GroupEvents ==
    {i \in Events("declare") : out[i].type = "SecurityGroup"}
    \cup {i \in PutEvents :
              PutKey(i) \in {Sg_sg_param_name(self, n) : n \in DocumentSecurityGroups}}

\* C25: every security group of the document is created, cached and
\* published before the first rule of any group is added, so a rule whose
\* source_sg names a group of the document (an earlier one, a later one or
\* the group itself) resolves to the group built in the pass and declares no
\* registry lookup.
C25_GroupsBeforeRules ==
    unit = "sg" =>
        /\ \A r \in RuleEvents : \A g \in GroupEvents : g < r
        /\ (RuleEvents # {} \/ pc.phase = "rules") =>
               \A n \in DocumentSecurityGroups :
                   /\ n \in DOMAIN self.security_groups
                   /\ self.security_groups[n].origin = "built"
                   /\ \E i \in PutEvents : PutKey(i) = Sg_sg_param_name(self, n)
        /\ \A i \in Events("resolve") :
               (out[i].cache = "security_groups" /\ out[i].name \in DocumentSecurityGroups)
                   => out[i].how = "cache" /\ out[i].handle.origin = "built"
        /\ \A i \in GetEvents :
               out[i].key \notin {Sg_sg_param_name(self, n) : n \in DocumentSecurityGroups}

\* a pass has ended in which a rule of one group named a group that stands
\* later in the document, and was resolved from the cache
C25_Witness ==
    /\ unit = "sg" /\ status = "done"
    /\ \E j, k \in DOMAIN Get(config, "security_groups", <<>>) :
           /\ j < k
           /\ \E r \in DOMAIN Get(config.security_groups[j], "ingress", <<>>) :
                  LET rule == config.security_groups[j].ingress[r]
                  IN  /\ ~Has(rule, "cidr") /\ Has(rule, "source_sg")
                      /\ rule.source_sg = config.security_groups[k].name
                      /\ \E i \in Events("resolve") :
                             /\ out[i].cache = "security_groups" /\ out[i].how = "cache"
                             /\ out[i].name = rule.source_sg

-----------------------------------------------------------------------------
(* Forward actions within one load-balancer spec (C26).                    *)

\* the position in the document of the load-balancer spec in whose build
\* the event i falls: the number of load balancers declared before it
AlbSpecOf(i) ==
    Cardinality({j \in Events("declare") : out[j].type = "LoadBalancer" /\ j < i})

\* the target groups declared in the a-th load-balancer spec
TargetGroupsOfSpec(a) ==
    IF a \in DOMAIN Get(config, "albs", <<>>)
    THEN {Get(config.albs[a], "target_groups", <<>>)[g].name :
              g \in DOMAIN Get(config.albs[a], "target_groups", <<>>)}
    ELSE {}

\* C26: within one load-balancer spec every target group is built and cached
\* before a listener action naming it is resolved: a forward (the default
\* HTTPS action or a rule action) to a target group declared in the same
\* spec is resolved to the group built in the pass, never through the
\* registry.
C26_ForwardStaysLocal ==
    unit = "alb" =>
        \A i \in Events("resolve") :
            (out[i].cache = "target_groups"
                 /\ out[i].name \in TargetGroupsOfSpec(AlbSpecOf(i)))
                => out[i].how = "cache" /\ out[i].handle.origin = "built"

-----------------------------------------------------------------------------
(* Logical identifiers of distinct names (C27).                            *)

\* the names of the resource specs under `category` are pairwise distinct
DistinctNames(category) ==
    \A i, j \in DOMAIN Get(config, category, <<>>) :
        config[category][i].name = config[category][j].name => i = j

\* the (load balancer, target group) name pairs of the document, one per
\* target-group entry
TargetGroupEntries ==
    UNION { {<<a, g>> : g \in DOMAIN Get(config.albs[a], "target_groups", <<>>)} :
                a \in DOMAIN Get(config, "albs", <<>>) }

DistinctTargetGroupNames ==
    \A p, q \in TargetGroupEntries :
        (/\ config.albs[p[1]].name = config.albs[q[1]].name
         /\ config.albs[p[1]].target_groups[p[2]].name
                = config.albs[q[1]].target_groups[q[2]].name) => p = q

\* the pass stopped where a construct of type `site` met an identifier in use
DuplicateAt(u, site) ==
    unit = u /\ status = "failed" /\ error.cause = "DuplicateConstructId" /\ error.site = site

\* C27: within a stack, distinct resource names of one category always yield
\* distinct logical identifiers, so that no pass over a document of distinct
\* names stops on an identifier in use: for ECR and S3 identifiers built with
\* replace('-', ''), for ECS and pipeline identifiers built with capitalize(), and
\* for target-group identifiers and registry keys built by concatenating the
\* load balancer's and the target group's name.
C27_DistinctNamesDistinctIds ==
    /\ DuplicateAt("ecr", "Repository") => ~DistinctNames("repositories")
    /\ DuplicateAt("s3", "Bucket") => ~DistinctNames("buckets")
    /\ DuplicateAt("ecs", "Cluster") => ~DistinctNames("clusters")
    /\ DuplicateAt("pipeline", "BucketImport") => ~DistinctNames("pipelines")
    /\ (DuplicateAt("alb", "TargetGroup") \/ DuplicateAt("alb", "StringParameter"))
           => ~DistinctTargetGroupNames

-----------------------------------------------------------------------------
(* Listener rule priorities (C28).                                         *)

\* the listener rules declared so far
RuleDeclarations == {i \in Events("declare") : out[i].type = "ListenerRule"}

\* the entry g of the load-balancer spec a is passed over: no condition and
\* an action that forwards
Skipped(a, g) ==
    LET tg_rule_conf == config.albs[a].target_groups[g]
        rule_action == Get(tg_rule_conf, "action", [type |-> "forward"])
    IN  /\ Alb_conditions(tg_rule_conf) = <<>>
        /\ rule_action.type \notin {"fixed_response", "redirect"}

\* the entries of the spec a that the rule declared in event i may stand for
EntriesOfRule(a, i) ==
    {g \in DOMAIN Get(config.albs[a], "target_groups", <<>>) :
         out[i].id = config.albs[a].name \o L_Rule \o Str(g - 1)}

\* the rules of the spec of event i declared before it
RulesBefore(i) ==
    {j \in RuleDeclarations : j < i /\ AlbSpecOf(j) = AlbSpecOf(i)}

\* C28: the listener rules of one load-balancer spec carry the priorities
\* 10, 20, 30, ... in document order; an entry passed over for want of
\* conditions consumes no priority, has its target group built, cached and
\* published, and gets neither a listener rule nor a DNS record.
C28_RulePriorities ==
    unit = "alb" =>
        /\ \A i \in RuleDeclarations :
               LET a == AlbSpecOf(i)
               IN  /\ out[i].props.priority = FirstPriority + 10 * Cardinality(RulesBefore(i))
                   /\ \E g \in EntriesOfRule(a, i) :
                          /\ ~Skipped(a, g)
                          /\ Cardinality(RulesBefore(i))
                                 = Cardinality({h \in 1..(g - 1) : ~Skipped(a, h)})
        /\ status = "done" =>
               \A p \in TargetGroupEntries : Skipped(p[1], p[2]) =>
                   LET alb_conf == config.albs[p[1]]
                       name == alb_conf.target_groups[p[2]].name
                       id == alb_conf.name \o name \o L_TG
                   IN  /\ \E i \in Events("declare") :
                              out[i].type = "TargetGroup" /\ out[i].id = id
                       /\ \E i \in Events("cache") :
                              /\ out[i].cache = "target_groups" /\ out[i].name = name
                              /\ out[i].handle.id = id
                       /\ \E i \in PutEvents :
                              PutKey(i) = Alb_targetgroup_param_name(self, alb_conf.name, name)
                       /\ \A i \in RuleDeclarations :
                              AlbSpecOf(i) = p[1] => p[2] \notin EntriesOfRule(p[1], i)
        /\ \A i \in Events("declare") : out[i].type = "ARecord" =>
               \E g \in DOMAIN config.albs[AlbSpecOf(i)].target_groups :
                   /\ ~Skipped(AlbSpecOf(i), g)
                   /\ \E h \in DOMAIN Get(config.albs[AlbSpecOf(i)].target_groups[g],
                                          "host_headers", <<>>) :
                          out[i].props.record_name
                              = config.albs[AlbSpecOf(i)].target_groups[g].host_headers[h]
                                    \o L_dot \o config.albs[AlbSpecOf(i)].domain_name

\* a pass has ended in which a rule that stands after a passed-over entry was
\* declared with the priority 20
C28_Witness ==
    /\ unit = "alb" /\ status = "done"
    /\ \E i \in RuleDeclarations :
           /\ out[i].props.priority = 20
           /\ \E g \in EntriesOfRule(AlbSpecOf(i), i) :
                  \E h \in 1..(g - 1) : Skipped(AlbSpecOf(i), h)

-----------------------------------------------------------------------------
(* The public-access setting of a bucket (C29).                            *)

BlockKeys ==
    {"block_public_acls", "block_public_policy", "ignore_public_acls", "restrict_public_buckets"}

AllBlocks(b) == [k \in BlockKeys |-> b]

\* the buckets declared so far; the k-th of them is built from the k-th spec
BucketDeclarations == {i \in Events("declare") : out[i].type = "Bucket"}

BucketSpecOf(i) ==
    config.buckets[1 + Cardinality({j \in BucketDeclarations : j < i})]

\* C29: get_block_public_access(enabled) returns all four public-access
\* blocks on exactly when `enabled` is truthy and all four off otherwise; as
\* the S3 stack calls it, a bucket spec without public_access_block is
\* declared with all four off and a spec with any non-empty mapping with all
\* four on, whatever the values in the mapping.
C29_BlockPublicAccess ==
    /\ \A enabled \in {<<>>, [bool |-> TRUE], [bool |-> FALSE]}
                      \cup UNION {[K -> BOOLEAN] : K \in (SUBSET BlockKeys) \ {{}}} :
           get_block_public_access(enabled)
               = AllBlocks(enabled # <<>> /\ enabled # [bool |-> FALSE])
    /\ unit = "s3" =>
           \A i \in BucketDeclarations :
               LET bucket_cfg == BucketSpecOf(i)
                   declared == out[i].props.block_public_access
               IN  /\ out[i].props.bucket_name
                          = config.project_name \o L_dash \o config.env \o L_dash \o bucket_cfg.name
                   /\ declared \in {AllBlocks(TRUE), AllBlocks(FALSE)}
                   /\ ~Has(bucket_cfg, "public_access_block") => declared = AllBlocks(FALSE)
                   /\ (/\ Has(bucket_cfg, "public_access_block")
                       /\ ~Has(bucket_cfg.public_access_block, "bool")
                       /\ bucket_cfg.public_access_block # <<>>) => declared = AllBlocks(TRUE)
                   /\ (/\ Has(bucket_cfg, "public_access_block")
                       /\ Has(bucket_cfg.public_access_block, "bool"))
                          => declared = AllBlocks(bucket_cfg.public_access_block.bool)

\* a pass has ended that declared a bucket whose public_access_block mapping
\* sets a block to false, and one whose spec has no public_access_block
C29_Witness ==
    /\ unit = "s3" /\ status = "done"
    /\ \E i \in BucketDeclarations :
           /\ Has(BucketSpecOf(i), "public_access_block")
           /\ Has(BucketSpecOf(i).public_access_block, "block_public_acls")
           /\ ~BucketSpecOf(i).public_access_block.block_public_acls
           /\ out[i].props.block_public_access = AllBlocks(TRUE)
    /\ \E i \in BucketDeclarations :
           /\ ~Has(BucketSpecOf(i), "public_access_block")
           /\ out[i].props.block_public_access = AllBlocks(FALSE)

-----------------------------------------------------------------------------
(* The security groups of an ECS service (C30).                            *)

\* the cluster spec in whose build the event i falls
ClusterSpecOf(i) ==
    config.clusters[Cardinality({j \in Events("declare") :
                                     out[j].type = "Cluster" /\ j < i})]

\* the service spec of that cluster the service built in event i stands for
ServiceSpecOf(i) ==
    CHOOSE svc_conf \in Range(Get(ClusterSpecOf(i), "services", <<>>)) :
        out[i].id = svc_conf.name \o L_Service

\* the groups the chain chooses for the service built in event i
ChosenGroups(i) ==
    LET own == Get(ServiceSpecOf(i), "service_security_groups", <<>>)
        of_cluster == Get(ClusterSpecOf(i), "security_groups", <<>>)
    IN  IF own # <<>> THEN [k \in DOMAIN own |-> self.security_groups[own[k]]]
        ELSE IF of_cluster # <<>>
        THEN [k \in DOMAIN of_cluster |-> self.security_groups[of_cluster[k]]]
        ELSE <<Handle("built", "SecurityGroup", out[i].id \o L_DefaultSG)>>

\* the chain of a service: its own groups, else the cluster's, else a new
\* default group, which is created only when both lists are empty
ChainFollowed(i) ==
    /\ out[i].resolved_sgs = ChosenGroups(i)
    /\ (\E d \in Events("declare") :
            out[d].type = "SecurityGroup" /\ out[d].id = out[i].id \o L_DefaultSG)
           <=> (/\ Get(ServiceSpecOf(i), "service_security_groups", <<>>) = <<>>
                /\ Get(ClusterSpecOf(i), "security_groups", <<>>) = <<>>)

\* the declaration of the service built in event i
ServiceDeclaration(i) ==
    CHOOSE d \in Events("declare") :
        out[d].type \in {"Ec2Service", "FargateService"} /\ out[d].id = out[i].id

====
